---- MODULE Spec2Model ----
(***************************************************************************)
(* Model of the gameplay simulation layer of polygun_arena_demo:          *)
(* Game, PlayerController (weapon state machine on a three.js animation   *)
(* mixer), TargetController, the EventBus and the parts of GameUIOverlay  *)
(* and Joystick that react to game events, driven by GameManager.update.  *)
(*                                                                         *)
(* Time is counted in ticks.  Animation durations, the overlay delay, the *)
(* magazine size, the kill cap and the preset sizes are scaled down from  *)
(* the values in constants.js; every scaled value is a named definition.  *)
(***************************************************************************)
EXTENDS Integers, Sequences, FiniteSets, TLC

VARIABLES
  CURRENT_TARGET_CONFIG,    \* constants.js: the build-time preset
  isGameOver,               \* Game.isGameOver
  killCount,                \* Game.killCount
  rotationState,            \* Game.rotationState [yaw, pitch]
  canFire,                  \* PlayerController.canFire
  magAmmo,                  \* PlayerController.magAmmo
  currentWeaponActionName,  \* PlayerController.currentWeaponActionName
  mixerListeners,           \* 'finished' listeners of PlayerController.weaponMixer
  actionTime,               \* time of each non-looping weapon action, -1 when not running
  obj3D,                    \* PlayerController.obj3D [x, z, rotationY]
  cameraRotationX,          \* PlayerController.camera.rotation.x
  config,                   \* TargetController.config
  count,                    \* TargetController.count
  targets,                  \* TargetController.targets with their animation and movement state
  overlayVisible,           \* GameUIOverlay.overlay.style.visibility = 'visible'
  overlayTimers,            \* pending setTimeout(showGameOverOverlay) callbacks: elapsed ticks
  killCounterText,          \* GameUIOverlay.killCounter.textContent  <<kills, needed>>
  currentKillCount,         \* GameUIOverlay.currentKillCount
  hitDetected,              \* value checkTargetHits returned to GameManager.update in the last frame
  joystickIsGameOver,       \* Joystick.isGameOver of <<moveJoystick, rotateJoystick>>
  listeners,                \* EventBus._listeners
  seq,                      \* EventBus._seq
  delivered,                \* calls received by probe listeners: <<callback, argument>>
  weaponTransitions,        \* changes of currentWeaponActionName made by the last step
  frameSteps,               \* the calls GameManager.update made in the last step, in order
  rendered,                 \* the targets as drawn by the last renderer.render
  fbxLoadedMap,             \* AssetLoader.fbxLoadedMap: key -> parsed object
  loopStarted,              \* GameManager.startGameLoop has run
  errors                    \* the uncaught exceptions so far, in order

vars == <<CURRENT_TARGET_CONFIG, isGameOver, killCount, rotationState, canFire, magAmmo,
          currentWeaponActionName, mixerListeners, actionTime, obj3D, cameraRotationX,
          config, count, targets, overlayVisible, overlayTimers, killCounterText,
          currentKillCount, hitDetected, joystickIsGameOver, listeners, seq, delivered,
          weaponTransitions, frameSteps, rendered, fbxLoadedMap, loopStarted, errors>>

(***************************************************************************)
(* Scaled program constants and bounds of the model.                       *)
(***************************************************************************)
MAX_MAG_AMMO == 2
KILL_COUNT_TO_WIN == 2
PITCH_CLAMP == 1
ROTATION_SPEED == 1
MOVE_SPEED == 1
MIN_X == -1
MAX_X == 1
MIN_Z == -1
MAX_Z == 1
DeployDuration == 2
FireDuration == 2
ReloadDuration == 4
ANIMATION_DURATION == 3
OVERLAY_DELAY == 1
MaxDelta == 2
MaxIntersections == 2
MaxYaw == 2
MaxRegistrations == 3
MaxOrder == 1
MaxCount == 3
MaxRows == 3
MaxScattered == 2
MAX_ATTEMPTS == 2
MaxInitFailures == 2
MaxReentrant == 4
MaxSeq == 5

PLAYER_INITIAL_POSITION == [x |-> 0, z |-> 1]

\* TARGET_ELIMINATION.ROTATION_X, in units of 1/ANIMATION_DURATION^3 of a quarter turn
ROTATION_X == 0 - (ANIMATION_DURATION * ANIMATION_DURATION * ANIMATION_DURATION)

\* sin() sampled at the ticks of one period of a moving target
SinTable == <<0, 1, 0, -1>>

Min(a, b) == IF a < b THEN a ELSE b
Max(a, b) == IF a > b THEN a ELSE b

(***************************************************************************)
(* Target configuration presets (constants.js TARGET_CONFIGS), scaled.     *)
(***************************************************************************)
NoMovement == [enabled |-> FALSE, amplitude |-> 0, speed |-> 0, axis |-> "none"]

LINEAR ==
  [name |-> "Linear", layout |-> "linear", count |-> 2, rows |-> 0, cols |-> 0,
   baseCount |-> 0, spacing |-> 1, basePosition |-> [x |-> -1, z |-> -2], hp |-> 2,
   movement |-> NoMovement]

GRID ==
  [name |-> "Grid", layout |-> "grid", count |-> 0, rows |-> 1, cols |-> 3,
   baseCount |-> 0, spacing |-> 1, basePosition |-> [x |-> -1, z |-> -2], hp |-> 1,
   movement |-> NoMovement]

PYRAMID ==
  [name |-> "Pyramid", layout |-> "pyramid", count |-> 0, rows |-> 2, cols |-> 0,
   baseCount |-> 2, spacing |-> 2, basePosition |-> [x |-> 0, z |-> -2], hp |-> 1,
   movement |-> NoMovement]

MOVING ==
  [name |-> "Moving Targets", layout |-> "moving", count |-> 1, rows |-> 0, cols |-> 0,
   baseCount |-> 0, spacing |-> 1, basePosition |-> [x |-> -1, z |-> -2], hp |-> 2,
   movement |-> [enabled |-> TRUE, amplitude |-> 1, speed |-> 1, axis |-> "both"]]

TARGET_CONFIGS == {LINEAR, GRID, PYRAMID, MOVING}

(***************************************************************************)
(* constants.js getEffectiveKillCountToWin: reads the build-time preset.   *)
(***************************************************************************)
RECURSIVE PyramidSum(_, _, _)
PyramidSum(cfg, row, acc) ==
  IF row < cfg.rows THEN PyramidSum(cfg, row + 1, acc + (cfg.baseCount - row)) ELSE acc

getEffectiveKillCountToWin ==
  LET currentTargetCount ==
        IF CURRENT_TARGET_CONFIG.layout = "grid"
          THEN CURRENT_TARGET_CONFIG.rows * CURRENT_TARGET_CONFIG.cols
        ELSE IF CURRENT_TARGET_CONFIG.layout = "pyramid"
          THEN PyramidSum(CURRENT_TARGET_CONFIG, 0, 0)
        ELSE CURRENT_TARGET_CONFIG.count
  IN  Min(currentTargetCount, KILL_COUNT_TO_WIN)

(***************************************************************************)
(* TargetController: layout generation and the target entities.            *)
(***************************************************************************)
getTargetCount(cfg) ==
  IF cfg.layout = "grid" THEN cfg.rows * cfg.cols
  ELSE IF cfg.layout = "pyramid" THEN PyramidSum(cfg, 0, 0)
  ELSE cfg.count

calculateLinearPositions(cfg) ==
  [i \in 1..cfg.count |->
     [x |-> cfg.basePosition.x + (i - 1) * cfg.spacing, z |-> cfg.basePosition.z]]

calculateGridPositions(cfg) ==
  [i \in 1..(cfg.rows * cfg.cols) |->
     LET row == (i - 1) \div cfg.cols
         col == (i - 1) % cfg.cols
     IN  [x |-> cfg.basePosition.x + col * cfg.spacing,
          z |-> cfg.basePosition.z + row * cfg.spacing]]

RECURSIVE PyramidRows(_, _, _)
PyramidRows(cfg, row, positions) ==
  IF row < cfg.rows
    THEN LET targetsInRow == cfg.baseCount - row
             \* startX is kept doubled: basePos.x - (targetsInRow - 1) * spacing / 2
             startX2 == 2 * cfg.basePosition.x - (targetsInRow - 1) * cfg.spacing
             rowPositions ==
               [c \in 1..Max(targetsInRow, 0) |->
                  [x |-> cfg.basePosition.x + (startX2 \div 2) + (c - 1) * cfg.spacing,
                   z |-> cfg.basePosition.z + row * cfg.spacing]]
         IN  PyramidRows(cfg, row + 1, positions \o rowPositions)
    ELSE positions

calculatePyramidPositions(cfg) == PyramidRows(cfg, 0, <<>>)

\* the angle of target i is kept as the exact fraction i / count of a turn
calculateCircularPositions(cfg) ==
  [i \in 1..cfg.count |->
     [center |-> cfg.centerPosition, radius |-> cfg.radius,
      startAngle |-> cfg.startAngle, turnNum |-> i - 1, turnDen |-> cfg.count]]

\* cos(config.angle) and sin(config.angle) are the config's cosAngle and sinAngle
calculateVFormationPositions(cfg) ==
  LET center == <<[x |-> cfg.basePosition.x, z |-> cfg.basePosition.z]>>
      left == [i \in 1..(cfg.count \div 2) |->
                 [x |-> cfg.basePosition.x - i * cfg.spacing * cfg.cosAngle,
                  z |-> cfg.basePosition.z - i * cfg.spacing * cfg.sinAngle]]
      right == [i \in 1..Max((cfg.count - 1) \div 2, 0) |->
                  [x |-> cfg.basePosition.x + i * cfg.spacing * cfg.cosAngle,
                   z |-> cfg.basePosition.z - i * cfg.spacing * cfg.sinAngle]]
      positions == center \o left \o right
  IN  SubSeq(positions, 1, Min(cfg.count, Len(positions)))

\* mutant: no sample is ever too close
isTooCloseToExistingNever(newPos, existingPositions, minDistance) == FALSE

isTooCloseToExisting(newPos, existingPositions, minDistance) ==
  \E k \in DOMAIN existingPositions :
    LET dx == newPos.x - existingPositions[k].x
        dz == newPos.z - existingPositions[k].z
    IN  dx * dx + dz * dz < minDistance * minDistance

\* the do-while of calculateScatteredPositions; random: the points the coming
\* Math.random() calls produce.  Returns <<position, rest of random>>
RECURSIVE ScatterAttempt(_, _, _, _)
ScatterAttempt(cfg, positions, random, attempts) ==
  LET position == Head(random)
  IN  IF attempts + 1 < MAX_ATTEMPTS
         /\ isTooCloseToExisting(position, positions, cfg.minDistance)
        THEN ScatterAttempt(cfg, positions, Tail(random), attempts + 1)
        ELSE <<position, Tail(random)>>

RECURSIVE ScatterFrom(_, _, _, _)
ScatterFrom(cfg, i, positions, random) ==
  IF i < cfg.count
    THEN LET placed == ScatterAttempt(cfg, positions, random, 0)
         IN  ScatterFrom(cfg, i + 1, Append(positions, placed[1]), placed[2])
    ELSE positions

calculateScatteredPositions(cfg, random) == ScatterFrom(cfg, 0, <<>>, random)

\* mutant: an unknown layout generates nothing
calculateTargetPositionsNoDefault(cfg, random) ==
  CASE cfg.layout \in {"linear", "moving"} -> calculateLinearPositions(cfg)
    [] cfg.layout = "circular" -> calculateCircularPositions(cfg)
    [] cfg.layout = "grid" -> calculateGridPositions(cfg)
    [] cfg.layout = "v_formation" -> calculateVFormationPositions(cfg)
    [] cfg.layout = "scattered" -> calculateScatteredPositions(cfg, random)
    [] cfg.layout = "pyramid" -> calculatePyramidPositions(cfg)
    [] OTHER -> <<>>

calculateTargetPositions(cfg, random) ==
  CASE cfg.layout = "linear" -> calculateLinearPositions(cfg)
    [] cfg.layout = "circular" -> calculateCircularPositions(cfg)
    [] cfg.layout = "grid" -> calculateGridPositions(cfg)
    [] cfg.layout = "v_formation" -> calculateVFormationPositions(cfg)
    [] cfg.layout = "scattered" -> calculateScatteredPositions(cfg, random)
    [] cfg.layout = "pyramid" -> calculatePyramidPositions(cfg)
    [] cfg.layout = "moving" -> calculateLinearPositions(cfg)
    [] OTHER -> calculateLinearPositions(cfg)

\* createTarget plus the targetAnimations / targetMovements entries of setupTargets
createTarget(cfg, position) ==
  [hp |-> cfg.hp,
   eliminated |-> FALSE,
   visible |-> TRUE,
   position |-> position,
   rotation |-> 0,
   isAnimating |-> FALSE,
   startRotation |-> 0,
   animationProgress |-> 0,
   hasMoveState |-> (cfg.layout = "moving" /\ cfg.movement.enabled),
   startPosition |-> position,
   time |-> 0,
   amplitude |-> cfg.movement.amplitude,
   speed |-> cfg.movement.speed,
   axis |-> cfg.movement.axis]

setupTargets(cfg, random) ==
  LET positions == calculateTargetPositions(cfg, random)
  IN  [i \in 1..Len(positions) |-> createTarget(cfg, positions[i])]

\* mutant: the reset does not restore hp
resetTargetKeepingHp(cfg, t) ==
  LET a == [t EXCEPT !.visible = TRUE, !.eliminated = FALSE,
                     !.isAnimating = FALSE, !.animationProgress = 0,
                     !.rotation = t.startRotation]
  IN  IF t.hasMoveState THEN [a EXCEPT !.time = 0, !.position = t.startPosition] ELSE a

resetTarget(cfg, t) ==
  LET a == [t EXCEPT !.visible = TRUE, !.hp = cfg.hp, !.eliminated = FALSE,
                     !.isAnimating = FALSE, !.animationProgress = 0,
                     !.rotation = t.startRotation]
  IN  IF t.hasMoveState THEN [a EXCEPT !.time = 0, !.position = t.startPosition] ELSE a

startTargetEliminationAnimation(t) ==
  IF ~t.isAnimating
    THEN [t EXCEPT !.isAnimating = TRUE, !.animationProgress = 0, !.startRotation = t.rotation]
    ELSE t

\* mutant: the early return for hp < 1 is missing
onHitWithoutGuard(t) ==
  LET hp == t.hp - 1
      u == [t EXCEPT !.hp = hp]
  IN  IF hp < 1
        THEN <<startTargetEliminationAnimation([u EXCEPT !.eliminated = TRUE]), TRUE>>
        ELSE <<u, FALSE>>

\* onHit on one target: <<target afterwards, returned value>>
onHit(t) ==
  IF t.hp < 1 THEN <<t, FALSE>>
  ELSE LET hp == t.hp - 1
           u == [t EXCEPT !.hp = hp]
       IN  IF hp < 1
             THEN <<startTargetEliminationAnimation([u EXCEPT !.eliminated = TRUE]), TRUE>>
             ELSE <<u, FALSE>>

\* lerp(a, b, num/den)
Lerp(a, b, num, den) == a + ((b - a) * num) \div den

\* 1 - (1 - t)^3 for t = p / ANIMATION_DURATION, as a numerator over ANIMATION_DURATION^3
EasedNumerator(p) ==
  LET D == ANIMATION_DURATION
  IN  D * D * D - (D - p) * (D - p) * (D - p)

\* mutant: the movement update does not look at the eliminated flag
updateTargetAnimationMovesEliminated(t, delta) ==
  LET D == ANIMATION_DURATION
      progress == t.animationProgress + delta
      a == IF t.isAnimating
             THEN IF progress >= D
                    THEN [t EXCEPT !.animationProgress = progress, !.isAnimating = FALSE,
                                   !.rotation = ROTATION_X, !.visible = FALSE]
                    ELSE [t EXCEPT !.animationProgress = progress,
                                   !.rotation = Lerp(t.startRotation, ROTATION_X,
                                                     EasedNumerator(progress), D * D * D)]
             ELSE t
      time == (a.time + delta * a.speed) % Len(SinTable)
      offset == SinTable[time + 1] * a.amplitude
      movesX == a.axis = "x" \/ a.axis = "both"
      movesZ == a.axis = "z" \/ a.axis = "both"
  IN  IF a.hasMoveState
        THEN [a EXCEPT !.time = time,
                       !.position = [x |-> IF movesX THEN a.startPosition.x + offset
                                                     ELSE a.position.x,
                                     z |-> IF movesZ THEN a.startPosition.z + offset
                                                     ELSE a.position.z]]
        ELSE a

\* mutant: a completed elimination animation leaves the target visible
updateTargetAnimationStaysVisible(t, delta) ==
  LET D == ANIMATION_DURATION
      progress == t.animationProgress + delta
  IN  IF t.isAnimating
        THEN IF progress >= D
               THEN [t EXCEPT !.animationProgress = progress, !.isAnimating = FALSE,
                              !.rotation = ROTATION_X]
               ELSE [t EXCEPT !.animationProgress = progress]
        ELSE t

updateTargetAnimation(t, delta) ==
  LET D == ANIMATION_DURATION
      progress == t.animationProgress + delta
      a == IF t.isAnimating
             THEN IF progress >= D
                    THEN [t EXCEPT !.animationProgress = progress, !.isAnimating = FALSE,
                                   !.rotation = ROTATION_X, !.visible = FALSE]
                    ELSE [t EXCEPT !.animationProgress = progress,
                                   !.rotation = Lerp(t.startRotation, ROTATION_X,
                                                     EasedNumerator(progress), D * D * D)]
             ELSE t
      time == (a.time + delta * a.speed) % Len(SinTable)
      offset == SinTable[time + 1] * a.amplitude
      movesX == a.axis = "x" \/ a.axis = "both"
      movesZ == a.axis = "z" \/ a.axis = "both"
  IN  IF a.hasMoveState /\ ~a.eliminated
        THEN [a EXCEPT !.time = time,
                       !.position = [x |-> IF movesX THEN a.startPosition.x + offset
                                                     ELSE a.position.x,
                                     z |-> IF movesZ THEN a.startPosition.z + offset
                                                     ELSE a.position.z]]
        ELSE a

(***************************************************************************)
(* The program state as one record, so that a handler is a function from   *)
(* state to state and a call sequence is a composition.                    *)
(***************************************************************************)
\* the logs of weapon transitions and of frame steps restart with every step
St ==
  [isGameOver |-> isGameOver, killCount |-> killCount, rotationState |-> rotationState,
   canFire |-> canFire, magAmmo |-> magAmmo,
   currentWeaponActionName |-> currentWeaponActionName,
   mixerListeners |-> mixerListeners, actionTime |-> actionTime, obj3D |-> obj3D,
   cameraRotationX |-> cameraRotationX, config |-> config, count |-> count,
   targets |-> targets, overlayVisible |-> overlayVisible,
   overlayTimers |-> overlayTimers, killCounterText |-> killCounterText,
   currentKillCount |-> currentKillCount, hitDetected |-> hitDetected,
   joystickIsGameOver |-> joystickIsGameOver, listeners |-> listeners, seq |-> seq,
   delivered |-> delivered, weaponTransitions |-> <<>>, frameSteps |-> <<>>,
   rendered |-> rendered, emitted |-> <<>>]

BecomesGame(st) ==
  /\ isGameOver' = st.isGameOver
  /\ killCount' = st.killCount
  /\ rotationState' = st.rotationState
  /\ canFire' = st.canFire
  /\ magAmmo' = st.magAmmo
  /\ currentWeaponActionName' = st.currentWeaponActionName
  /\ mixerListeners' = st.mixerListeners
  /\ actionTime' = st.actionTime
  /\ obj3D' = st.obj3D
  /\ cameraRotationX' = st.cameraRotationX
  /\ config' = st.config
  /\ count' = st.count
  /\ targets' = st.targets
  /\ overlayVisible' = st.overlayVisible
  /\ overlayTimers' = st.overlayTimers
  /\ killCounterText' = st.killCounterText
  /\ currentKillCount' = st.currentKillCount
  /\ hitDetected' = st.hitDetected
  /\ joystickIsGameOver' = st.joystickIsGameOver
  /\ listeners' = st.listeners
  /\ seq' = st.seq
  /\ delivered' = st.delivered
  /\ weaponTransitions' = st.weaponTransitions
  /\ frameSteps' = st.frameSteps
  /\ rendered' = st.rendered
  /\ UNCHANGED CURRENT_TARGET_CONFIG

Becomes(st) ==
  /\ BecomesGame(st)
  /\ UNCHANGED <<fbxLoadedMap, loopStarted, errors>>

(***************************************************************************)
(* EventBus                                                                *)
(***************************************************************************)
EventNames ==
  {"GAME_OVER", "PLAY_AGAIN", "KILL_COUNT_UPDATE", "SHOOTING", "TARGET_CONFIG_CHANGED",
   "PROBE", "NESTED"}

\* mutant: the comparator ignores the priority
ListenerBeforeBySeqOnly(a, b) == a.seq < b.seq

\* the comparator of on(): a.order === b.order ? a.seq - b.seq : a.order - b.order
ListenerBefore(a, b) ==
  IF a.order = b.order THEN a.seq < b.seq ELSE a.order < b.order

\* Array.prototype.sort with that comparator (insertion sort; the keys are distinct)
RECURSIVE InsertListener(_, _)
InsertListener(sorted, l) ==
  IF sorted = <<>> THEN <<l>>
  ELSE IF ListenerBefore(l, Head(sorted)) THEN <<l>> \o sorted
  ELSE <<Head(sorted)>> \o InsertListener(Tail(sorted), l)

RECURSIVE SortListeners(_)
SortListeners(ls) ==
  IF ls = <<>> THEN <<>> ELSE InsertListener(SortListeners(Tail(ls)), Head(ls))

on(st, event, cb, order) ==
  [st EXCEPT !.listeners[event] = SortListeners(Append(@, [cb |-> cb, order |-> order,
                                                           seq |-> st.seq])),
             !.seq = @ + 1]

off(st, event, cb) ==
  [st EXCEPT !.listeners[event] = SelectSeq(@, LAMBDA l : l.cb # cb)]

RECURSIVE emit(_, _, _)

(***************************************************************************)
(* PlayerController: the weapon state machine                              *)
(***************************************************************************)
NonLoopingActions == {"deploy", "fire", "reload"}

Duration(actionName) ==
  CASE actionName = "deploy" -> DeployDuration
    [] actionName = "fire" -> FireDuration
    [] actionName = "reload" -> ReloadDuration

\* mutant: readiness looks at the magazine only
isWeaponReadyWithAmmo(st) == st.magAmmo > 0

isWeaponReady(st) == st.canFire /\ st.magAmmo > 0

\* onCompleteCallback is "none" for null, else the name of the completion callback
\* mutant: the early return for the current action is missing
playWeaponAnimAlways(st, actionName, onCompleteCallback, loop) ==
  [st EXCEPT
     !.currentWeaponActionName = actionName,
     !.weaponTransitions =
        Append(@, [from |-> st.currentWeaponActionName, to |-> actionName,
                   magAmmo |-> st.magAmmo]),
     !.mixerListeners = IF onCompleteCallback # "none"
                          THEN Append(@, onCompleteCallback) ELSE @,
     !.actionTime = IF loop THEN @ ELSE [@ EXCEPT ![actionName] = 0]]

playWeaponAnim(st, actionName, onCompleteCallback, loop) ==
  IF st.currentWeaponActionName = actionName THEN st
  ELSE [st EXCEPT
          !.currentWeaponActionName = actionName,
          !.weaponTransitions =
             Append(@, [from |-> st.currentWeaponActionName, to |-> actionName,
                        magAmmo |-> st.magAmmo]),
          !.mixerListeners = IF onCompleteCallback # "none"
                               THEN Append(@, onCompleteCallback) ELSE @,
          \* action.reset().setLoop(...).play()
          !.actionTime = IF loop THEN @ ELSE [@ EXCEPT ![actionName] = 0]]

\* the completion callbacks passed to playWeaponAnim
deployComplete(st) ==
  playWeaponAnim([st EXCEPT !.canFire = TRUE], "idle", "none", TRUE)

reloadComplete(st) ==
  playWeaponAnim([st EXCEPT !.magAmmo = MAX_MAG_AMMO, !.canFire = TRUE], "idle", "none", TRUE)

\* mutant: the Fire completion never starts Reload
fireCompleteAlwaysIdle(st) ==
  playWeaponAnim([st EXCEPT !.canFire = TRUE], "idle", "none", TRUE)

fireComplete(st) ==
  IF st.magAmmo > 0
    THEN playWeaponAnim([st EXCEPT !.canFire = TRUE], "idle", "none", TRUE)
    ELSE playWeaponAnim(st, "reload", "reloadComplete", FALSE)

RECURSIVE RemoveFirst(_, _)
RemoveFirst(s, e) ==
  IF s = <<>> THEN <<>>
  ELSE IF Head(s) = e THEN Tail(s)
  ELSE <<Head(s)>> \o RemoveFirst(Tail(s), e)

\* onCompleteCallbackWrapper: run the callback, then remove this wrapper from the mixer
onCompleteCallbackWrapper(st, cb) ==
  LET after == CASE cb = "deployComplete" -> deployComplete(st)
                 [] cb = "fireComplete" -> fireComplete(st)
                 [] cb = "reloadComplete" -> reloadComplete(st)
  IN  [after EXCEPT !.mixerListeners = RemoveFirst(@, cb)]

\* the mixer dispatching one 'finished' event: every listener registered at that moment runs
RECURSIVE DispatchFinished(_, _)
DispatchFinished(st, snapshot) ==
  IF snapshot = <<>> THEN st
  ELSE DispatchFinished(onCompleteCallbackWrapper(st, Head(snapshot)), Tail(snapshot))

\* one action of the mixer advanced by delta; LoopOnce, clamped when finished
advanceAction(st, actionName, delta) ==
  IF st.actionTime[actionName] = -1 THEN st
  ELSE IF st.actionTime[actionName] + delta >= Duration(actionName)
    THEN LET done == [st EXCEPT !.actionTime[actionName] = -1]
         IN  DispatchFinished(done, done.mixerListeners)
    ELSE [st EXCEPT !.actionTime[actionName] = @ + delta]

\* weaponMixer.update(delta): the actions running when the update begins, in the order
\* in which they were first played
updateMixer(st, delta) ==
  LET running == {a \in NonLoopingActions : st.actionTime[a] # -1}
      step(s, a) == IF a \in running THEN advanceAction(s, a, delta) ELSE s
  IN  step(step(step(st, "deploy"), "fire"), "reload")

fireWeapon(st) ==
  LET a == [st EXCEPT !.magAmmo = @ - 1, !.canFire = FALSE]
      b == emit(a, "SHOOTING", "none")
  IN  playWeaponAnim(b, "fire", "fireComplete", FALSE)

\* the snapshot setupInitialState records in initialData
initialData ==
  [obj3D |-> [x |-> PLAYER_INITIAL_POSITION.x, z |-> PLAYER_INITIAL_POSITION.z,
              rotationY |-> 0],
   cameraRotationX |-> 0]

\* mutant: the reset stops the current weapon action before it plays Deploy
resetToInitialStateRestarting(st) ==
  LET a == [st EXCEPT !.obj3D = initialData.obj3D,
                      !.cameraRotationX = initialData.cameraRotationX,
                      !.magAmmo = MAX_MAG_AMMO,
                      !.currentWeaponActionName = "none"]
  IN  playWeaponAnim(a, "deploy", "deployComplete", FALSE)

resetToInitialState(st) ==
  LET a == [st EXCEPT !.obj3D = initialData.obj3D,
                      !.cameraRotationX = initialData.cameraRotationX,
                      !.magAmmo = MAX_MAG_AMMO]
  IN  playWeaponAnim(a, "deploy", "deployComplete", FALSE)

(***************************************************************************)
(* PlayerController.update: rotation copy and bounded movement             *)
(***************************************************************************)
\* yaw is counted in quarter turns, so that applyAxisAngle(Y_AXIS_VECTOR, yaw) is exact
Cos4(q) == <<1, 0, -1, 0>>[(q % 4) + 1]
Sin4(q) == <<0, 1, 0, -1>>[(q % 4) + 1]

lengthSq(d) == d.x * d.x + d.y * d.y

\* direction.normalize(), for the axis-aligned inputs the model draws
Sign(n) == IF n > 0 THEN 1 ELSE IF n < 0 THEN -1 ELSE 0
normalize(d) == [x |-> Sign(d.x), y |-> Sign(d.y)]

\* the (x, z) components of direction.applyAxisAngle(Y_AXIS_VECTOR, yaw)
applyAxisAngle(d, yaw) ==
  [x |-> d.x * Cos4(yaw) + d.y * Sin4(yaw), y |-> d.y * Cos4(yaw) - d.x * Sin4(yaw)]

\* mutant: the new position is not clamped to the movement bounds
playerUpdateUnclamped(st, direction, delta) ==
  LET a == [st EXCEPT !.obj3D.rotationY = st.rotationState.yaw,
                      !.cameraRotationX = st.rotationState.pitch]
      d == applyAxisAngle(normalize(direction), st.rotationState.yaw)
  IN  IF lengthSq(direction) > 0
        THEN [a EXCEPT !.obj3D.x = a.obj3D.x + d.x * MOVE_SPEED * delta,
                       !.obj3D.z = a.obj3D.z + d.y * MOVE_SPEED * delta]
        ELSE a

playerUpdate(st, direction, delta) ==
  LET a == [st EXCEPT !.obj3D.rotationY = st.rotationState.yaw,
                      !.cameraRotationX = st.rotationState.pitch]
      d == applyAxisAngle(normalize(direction), st.rotationState.yaw)
      newX == Max(MIN_X, Min(MAX_X, a.obj3D.x + d.x * MOVE_SPEED * delta))
      newZ == Max(MIN_Z, Min(MAX_Z, a.obj3D.z + d.y * MOVE_SPEED * delta))
  IN  IF lengthSq(direction) > 0
        THEN [a EXCEPT !.obj3D.x = newX, !.obj3D.z = newZ]
        ELSE a

(***************************************************************************)
(* Game                                                                    *)
(***************************************************************************)
\* mutant: the rotation state is not cleared
resetGameKeepingRotation(st) ==
  LET a == [st EXCEPT !.isGameOver = FALSE, !.killCount = 0]
  IN  emit(a, "KILL_COUNT_UPDATE", a.killCount)

\* mutant: play-again keeps the kill count
resetGameKeepingKillCount(st) ==
  LET a == [st EXCEPT !.isGameOver = FALSE, !.rotationState = [yaw |-> 0, pitch |-> 0]]
  IN  emit(a, "KILL_COUNT_UPDATE", a.killCount)

resetGame(st) ==
  LET a == [st EXCEPT !.isGameOver = FALSE, !.rotationState = [yaw |-> 0, pitch |-> 0],
                      !.killCount = 0]
  IN  emit(a, "KILL_COUNT_UPDATE", a.killCount)

\* mutant: the pitch is not clamped
updateRotationUnclamped(st, joystickInput, delta) ==
  [st EXCEPT !.rotationState =
     [yaw |-> st.rotationState.yaw - joystickInput.x * delta * ROTATION_SPEED,
      pitch |-> st.rotationState.pitch - joystickInput.y * delta * ROTATION_SPEED]]

updateRotation(st, joystickInput, delta) ==
  LET yaw == st.rotationState.yaw - joystickInput.x * delta * ROTATION_SPEED
      pitch == st.rotationState.pitch - joystickInput.y * delta * ROTATION_SPEED
  IN  [st EXCEPT !.rotationState =
         [yaw |-> yaw, pitch |-> Max(0 - PITCH_CLAMP, Min(PITCH_CLAMP, pitch))]]

\* mutant: the weapon is fired before the kill is counted
resolveIntersectionsFireFirst(st, intersects) ==
  IF Len(intersects) > 0 /\ st.targets[intersects[1]].visible
    THEN LET firstHit == intersects[1]
             hit == onHit(st.targets[firstHit])
             a == fireWeapon([st EXCEPT !.targets[firstHit] = hit[1]])
             b == IF hit[2]
                    THEN LET k == emit([a EXCEPT !.killCount = @ + 1], "KILL_COUNT_UPDATE",
                                       a.killCount + 1)
                         IN  IF k.killCount >= getEffectiveKillCountToWin
                               THEN emit([k EXCEPT !.isGameOver = TRUE], "GAME_OVER", "none")
                               ELSE k
                    ELSE a
         IN  [b EXCEPT !.hitDetected = TRUE]
    ELSE [st EXCEPT !.hitDetected = FALSE]

\* checkTargetHits behind its weapon-ready guard.  intersects: the targets the ray meets,
\* nearest first (raycaster.intersectObjects)
resolveIntersections(st, intersects) ==
  IF Len(intersects) > 0 /\ st.targets[intersects[1]].visible
    THEN LET firstHit == intersects[1]
             hit == onHit(st.targets[firstHit])
             a == [st EXCEPT !.targets[firstHit] = hit[1]]
             b == IF hit[2]
                    THEN LET k == emit([a EXCEPT !.killCount = @ + 1], "KILL_COUNT_UPDATE",
                                       a.killCount + 1)
                         IN  IF k.killCount >= getEffectiveKillCountToWin
                               THEN emit([k EXCEPT !.isGameOver = TRUE], "GAME_OVER", "none")
                               ELSE k
                    ELSE a
         IN  [fireWeapon(b) EXCEPT !.hitDetected = TRUE]
    ELSE [st EXCEPT !.hitDetected = FALSE]

\* mutant: the weapon-ready guard is missing
checkTargetHitsUnguarded(st, intersects) == resolveIntersections(st, intersects)

checkTargetHits(st, intersects) ==
  IF ~isWeaponReady(st) THEN [st EXCEPT !.hitDetected = FALSE]
  ELSE resolveIntersections(st, intersects)

(***************************************************************************)
(* TargetController operations on the collection                           *)
(***************************************************************************)
resetTargets(st) ==
  [st EXCEPT !.targets = [i \in DOMAIN st.targets |-> resetTarget(st.config, st.targets[i])]]

updateAnimations(st, delta) ==
  [st EXCEPT !.targets = [i \in DOMAIN st.targets |->
                            updateTargetAnimation(st.targets[i], delta)]]

\* mutant: the existing targets are not removed before the new ones are set up
changeConfigurationKeepsTargets(st, newConfig, random) ==
  LET a == [st EXCEPT !.targets = st.targets \o setupTargets(newConfig, random),
                      !.config = newConfig,
                      !.count = getTargetCount(newConfig)]
  IN  emit(a, "TARGET_CONFIG_CHANGED",
           [targetCount |-> getTargetCount(newConfig), configName |-> newConfig.name])

\* random: the points Math.random() produces during the call
changeConfiguration(st, newConfig, random) ==
  LET a == [st EXCEPT !.targets = setupTargets(newConfig, random),
                      !.config = newConfig,
                      !.count = getTargetCount(newConfig)]
  IN  emit(a, "TARGET_CONFIG_CHANGED",
           [targetCount |-> getTargetCount(newConfig), configName |-> newConfig.name])

(***************************************************************************)
(* GameUIOverlay                                                           *)
(***************************************************************************)
updateKillCounterDisplay(st) ==
  [st EXCEPT !.killCounterText = <<st.currentKillCount, getEffectiveKillCountToWin>>]

updateKillCounter(st, k) ==
  updateKillCounterDisplay([st EXCEPT !.currentKillCount = k])

showGameOverOverlay(st) == [st EXCEPT !.overlayVisible = TRUE]

\* mutant: hiding the overlay does nothing
hideGameOverOverlayNoOp(st) == st

hideGameOverOverlay(st) == [st EXCEPT !.overlayVisible = FALSE]

(***************************************************************************)
(* The listeners the components register on the bus, and emit              *)
(***************************************************************************)
Probes == {"p1", "p2"}

\* callbacks that use the bus while they are being invoked, and those of the event that
\* one of them emits
ReentrantProbes == {"adder", "remover", "nester"}
NestedProbes == {"n1", "n2"}

logged(st, cb, arg) == [st EXCEPT !.delivered = Append(@, <<cb, arg>>)]

invoke(st, cb, arg) ==
  CASE cb = "Game.onPlayAgain" ->
         resetTargets(resetToInitialState(resetGame(st)))
    [] cb = "GameUIOverlay.onGameOver" ->
         [st EXCEPT !.overlayTimers = Append(@, 0)]
    [] cb = "GameUIOverlay.onKillCountUpdate" -> updateKillCounter(st, arg)
    [] cb = "GameUIOverlay.onShooting" -> st
    [] cb = "GameUIOverlay.onTargetConfigChanged" -> updateKillCounterDisplay(st)
    [] cb = "moveJoystick.onGameOver" -> [st EXCEPT !.joystickIsGameOver[1] = TRUE]
    [] cb = "moveJoystick.onPlayAgain" -> [st EXCEPT !.joystickIsGameOver[1] = FALSE]
    [] cb = "rotateJoystick.onGameOver" -> [st EXCEPT !.joystickIsGameOver[2] = TRUE]
    [] cb = "rotateJoystick.onPlayAgain" -> [st EXCEPT !.joystickIsGameOver[2] = FALSE]
    [] cb = "PlayerController.onGameOver" -> [st EXCEPT !.canFire = FALSE]
    [] cb = "PlayerController.onPlayAgain" -> resetToInitialState(st)
    [] cb = "TargetController.onPlayAgain" -> resetTargets(st)
    [] cb \in Probes -> [st EXCEPT !.delivered = Append(@, <<cb, arg>>)]
    [] cb \in NestedProbes -> logged(st, cb, arg)
    [] cb = "adder" ->
         IF Len(st.listeners["PROBE"]) < MaxReentrant
           THEN on(logged(st, cb, arg), "PROBE", "p2", 0)
           ELSE logged(st, cb, arg)
    [] cb = "remover" -> off(logged(st, cb, arg), "PROBE", "p1")
    [] cb = "nester" -> emit(logged(st, cb, arg), "NESTED", arg)

RECURSIVE deliver(_, _, _)
deliver(st, snapshot, arg) ==
  IF snapshot = <<>> THEN st
  ELSE deliver(invoke(st, Head(snapshot).cb, arg), Tail(snapshot), arg)

\* mutant: the loop runs over the live listener list, not over a copy
RECURSIVE deliverLive(_, _, _, _)
deliverLive(st, event, k, arg) ==
  IF k > Len(st.listeners[event]) THEN st
  ELSE deliverLive(invoke(st, st.listeners[event][k].cb, arg), event, k + 1, arg)

emitWithoutSlice(st, event, arg) ==
  LET a == [st EXCEPT !.emitted = Append(@, event)]
  IN  deliverLive(a, event, 1, arg)

\* for (const { cb } of this._listeners[event].slice()) cb(...args)
\* emitted: the events emitted while the current handler runs, in order
emit(st, event, arg) ==
  LET a == [st EXCEPT !.emitted = Append(@, event)]
  IN  IF a.listeners[event] = <<>> THEN a
      ELSE deliver(a, a.listeners[event], arg)

(***************************************************************************)
(* GameManager: construction, initializeGame and the frame                 *)
(***************************************************************************)
\* the fields before any constructor has run
Blank(cfg) ==
  [isGameOver |-> FALSE, killCount |-> 0, rotationState |-> [yaw |-> 0, pitch |-> 0],
   canFire |-> FALSE, magAmmo |-> MAX_MAG_AMMO, currentWeaponActionName |-> "",
   mixerListeners |-> <<>>, actionTime |-> [a \in NonLoopingActions |-> -1],
   obj3D |-> initialData.obj3D, cameraRotationX |-> initialData.cameraRotationX,
   config |-> cfg, count |-> cfg.count, targets |-> <<>>, overlayVisible |-> FALSE,
   overlayTimers |-> <<>>, killCounterText |-> <<0, getEffectiveKillCountToWin>>,
   currentKillCount |-> 0, hitDetected |-> FALSE, joystickIsGameOver |-> <<FALSE, FALSE>>,
   listeners |-> [e \in EventNames |-> <<>>], seq |-> 0, delivered |-> <<>>,
   weaponTransitions |-> <<>>, frameSteps |-> <<>>, rendered |-> <<>>, emitted |-> <<>>]

GameConstructor(st) == on(st, "PLAY_AGAIN", "Game.onPlayAgain", 0)

GameUIOverlayConstructor(st) ==
  LET a == on(st, "GAME_OVER", "GameUIOverlay.onGameOver", 0)
      b == on(a, "KILL_COUNT_UPDATE", "GameUIOverlay.onKillCountUpdate", 0)
      c == on(b, "SHOOTING", "GameUIOverlay.onShooting", 0)
  IN  on(c, "TARGET_CONFIG_CHANGED", "GameUIOverlay.onTargetConfigChanged", 0)

JoystickConstructor(st, name) ==
  on(on(st, "GAME_OVER", name \o ".onGameOver", 0), "PLAY_AGAIN", name \o ".onPlayAgain", 0)

PlayerControllerConstructor(st) ==
  LET a == on(st, "GAME_OVER", "PlayerController.onGameOver", 0)
      b == on(a, "PLAY_AGAIN", "PlayerController.onPlayAgain", 0)
      \* setupInitialState
      c == [b EXCEPT !.canFire = FALSE, !.magAmmo = MAX_MAG_AMMO]
  IN  playWeaponAnim(c, "deploy", "deployComplete", FALSE)

TargetControllerConstructor(st, cfg) ==
  on([st EXCEPT !.config = cfg, !.count = cfg.count, !.targets = setupTargets(cfg, <<>>)],
     "PLAY_AGAIN", "TargetController.onPlayAgain", 0)

\* new GameManager()
GameManagerConstructor(cfg) ==
  LET a == GameUIOverlayConstructor(GameConstructor(Blank(cfg)))
  IN  JoystickConstructor(JoystickConstructor(a, "moveJoystick"), "rotateJoystick")

\* the keys initializeGame asks for, a misnamed one, and the parsed objects
RequiredAssets == {"mergedFBXBase64", "mergedAnimFBXBase64", "dummyTargetFBXBase64"}
AssetKeys == RequiredAssets \cup {"targetFBXBase64"}
AssetObjects == {"object1", "object2"}
LoadedAssets == [key \in RequiredAssets |-> "object1"]

NoError == "none"

\* fbxLoadedMap.set(key, object)
loadFBX(map, key, object) ==
  [k \in DOMAIN map \cup {key} |-> IF k = key THEN object ELSE map[k]]

\* mutant: a key that is not loaded yields an empty object
getFBXOrEmpty(map, key) ==
  [fbxLoadedMap |-> map,
   value |-> IF key \in DOMAIN map THEN map[key] ELSE "empty",
   thrown |-> NoError]

\* the map after the call, the value returned and the exception thrown
getFBX(map, key) ==
  IF key \in DOMAIN map
    THEN [fbxLoadedMap |-> map, value |-> map[key], thrown |-> NoError]
    ELSE [fbxLoadedMap |-> map, value |-> "none",
          thrown |-> "FBX DOES NOT EXIST WITH GIVEN KEY: " \o key]

\* initializeGame() on the state st: the state it leaves, whether it reached
\* startGameLoop, and the exception that ended it
initializeGame(st, cfg, map) ==
  LET mergedFBX == getFBX(map, "mergedFBXBase64")
      mergedAnimFBX == getFBX(mergedFBX.fbxLoadedMap, "mergedAnimFBXBase64")
      dummyTargetFBX == getFBX(mergedAnimFBX.fbxLoadedMap, "dummyTargetFBXBase64")
      player == PlayerControllerConstructor(st)
  IN  IF mergedFBX.thrown # NoError
        THEN [st |-> st, fbxLoadedMap |-> mergedFBX.fbxLoadedMap,
              loopStarted |-> FALSE, thrown |-> mergedFBX.thrown]
      ELSE IF mergedAnimFBX.thrown # NoError
        THEN [st |-> st, fbxLoadedMap |-> mergedAnimFBX.fbxLoadedMap,
              loopStarted |-> FALSE, thrown |-> mergedAnimFBX.thrown]
      ELSE IF dummyTargetFBX.thrown # NoError
        THEN [st |-> player, fbxLoadedMap |-> dummyTargetFBX.fbxLoadedMap,
              loopStarted |-> FALSE, thrown |-> dummyTargetFBX.thrown]
      ELSE [st |-> TargetControllerConstructor(player, cfg),
            fbxLoadedMap |-> dummyTargetFBX.fbxLoadedMap,
            loopStarted |-> TRUE, thrown |-> NoError]

called(st, name) == [st EXCEPT !.frameSteps = Append(@, name)]

\* what renderer.render(scene, camera) draws of the targets: each one's pose, and whether
\* that pose is a frame of its elimination animation
Scene(st) ==
  [i \in DOMAIN st.targets |->
     [visible |-> st.targets[i].visible, rotation |-> st.targets[i].rotation,
      position |-> st.targets[i].position, isAnimating |-> st.targets[i].isAnimating]]

render(st) == called([st EXCEPT !.rendered = Scene(st)], "render")

\* the part of GameManager.update that precedes the render
advance(st, delta) ==
  called(updateAnimations(called(updateMixer(st, delta), "updateMixer"), delta),
         "updateAnimations")

\* mutant: the frame is drawn last, after hit resolution
updateRenderLast(st, delta, rotateInput, moveInput, intersects) ==
  LET a == advance(st, delta)
      b == called(updateRotation(a, rotateInput, delta), "updateRotation")
      c == called(playerUpdate(b, moveInput, delta), "update")
  IN  IF a.isGameOver THEN [a EXCEPT !.hitDetected = FALSE]
      ELSE render(called(checkTargetHits(c, intersects), "checkTargetHits"))

\* mutant: the frame does not return when the game is over
updateUngated(st, delta, rotateInput, moveInput, intersects) ==
  LET a == render(advance(st, delta))
      b == called(updateRotation(a, rotateInput, delta), "updateRotation")
      c == called(playerUpdate(b, moveInput, delta), "update")
  IN  called(checkTargetHits(c, intersects), "checkTargetHits")

\* GameManager.update with the frame's delta, joystick inputs and ray intersections
update(st, delta, rotateInput, moveInput, intersects) ==
  LET a == render(advance(st, delta))
      b == called(updateRotation(a, rotateInput, delta), "updateRotation")
      c == called(playerUpdate(b, moveInput, delta), "update")
  IN  IF a.isGameOver THEN [a EXCEPT !.hitDetected = FALSE]
      ELSE called(checkTargetHits(c, intersects), "checkTargetHits")

(***************************************************************************)
(* Inputs                                                                  *)
(***************************************************************************)
Zero == [x |-> 0, y |-> 0]

\* <<rotate joystick, move joystick>> samples of one frame
JoystickInputs ==
  {<<Zero, Zero>>,
   <<[x |-> 1, y |-> 0], Zero>>, <<[x |-> -1, y |-> 0], Zero>>,
   <<[x |-> 0, y |-> 1], Zero>>, <<[x |-> 0, y |-> -1], Zero>>,
   <<Zero, [x |-> 1, y |-> 0]>>, <<Zero, [x |-> -1, y |-> 0]>>,
   <<Zero, [x |-> 0, y |-> 1]>>, <<Zero, [x |-> 0, y |-> -1]>>,
   <<[x |-> 1, y |-> 1], [x |-> 0, y |-> -1]>>,
   <<[x |-> -1, y |-> -1], [x |-> 1, y |-> 0]>>}

\* the values a joystick axis takes, the inputs of one joystick, and the axis-aligned ones
AxisSamples == {-1, 0, 1}
StickSamples == {[x |-> x, y |-> y] : x, y \in AxisSamples}
AxisAlignedSamples == {d \in StickSamples : d.x = 0 \/ d.y = 0}

IsInjective(s) == \A i, j \in DOMAIN s : i # j => s[i] # s[j]

\* the ordered lists of distinct targets a ray can meet
Intersections(n) ==
  {s \in UNION {[1..k -> 1..n] : k \in 0..Min(MaxIntersections, n)} : IsInjective(s)}

\* wall-clock time passing for the pending overlay timers
TimersAfter(timers, delta) ==
  [i \in DOMAIN timers |-> Min(OVERLAY_DELAY, timers[i] + delta)]

(***************************************************************************)
(* Actions                                                                 *)
(***************************************************************************)
Frame(delta, rotateInput, moveInput, intersects) ==
  /\ loopStarted
  /\ \E st \in {update([St EXCEPT !.overlayTimers = TimersAfter(@, delta)], delta,
                         rotateInput, moveInput, intersects)} :
       /\ st.rotationState.yaw \in (0 - MaxYaw)..MaxYaw
       /\ Becomes(st)

\* while the game is over update() returns before it reads the joysticks and the ray:
\* one sample of them stands for all
FrameJoystickInputs == IF isGameOver THEN {<<Zero, Zero>>} ELSE JoystickInputs
FrameIntersections == IF isGameOver THEN {<<>>} ELSE Intersections(Len(targets))

FrameStill ==
  \E delta \in 1..MaxDelta, intersects \in FrameIntersections :
    Frame(delta, Zero, Zero, intersects)

FrameMoving ==
  \E delta \in 1..MaxDelta, input \in FrameJoystickInputs,
     intersects \in FrameIntersections :
    Frame(delta, input[1], input[2], intersects)

\* a frame with the rotate joystick in use
FrameRotating ==
  \E delta \in 1..MaxDelta,
     rotateInput \in (IF isGameOver THEN {Zero} ELSE StickSamples),
     intersects \in FrameIntersections :
    Frame(delta, rotateInput, Zero, intersects)

\* a frame with the move joystick in use, the rotate joystick turning only
FrameWalking ==
  \E delta \in 1..MaxDelta,
     turn \in (IF isGameOver THEN {0} ELSE AxisSamples),
     moveInput \in (IF isGameOver THEN {Zero} ELSE AxisAlignedSamples),
     intersects \in FrameIntersections :
    Frame(delta, [x |-> turn, y |-> 0], moveInput, intersects)

\* the scheduled showGameOverOverlay callback runs, not before its delay
OverlayTimer ==
  /\ overlayTimers # <<>>
  /\ Head(overlayTimers) >= OVERLAY_DELAY
  /\ Becomes(showGameOverOverlay([St EXCEPT !.overlayTimers = Tail(@)]))

\* the play-again button of the visible overlay is pressed
PlayAgain ==
  /\ overlayVisible
  /\ Becomes(emit(hideGameOverOverlay(St), "PLAY_AGAIN", "none"))

\* the presets a session is built with or switched to
SessionConfigs == {LINEAR, GRID, MOVING}

ChangeConfiguration ==
  \E newConfig \in SessionConfigs : Becomes(changeConfiguration(St, newConfig, <<>>))

StartsAs(st) ==
  /\ isGameOver = st.isGameOver
  /\ killCount = st.killCount
  /\ rotationState = st.rotationState
  /\ canFire = st.canFire
  /\ magAmmo = st.magAmmo
  /\ currentWeaponActionName = st.currentWeaponActionName
  /\ mixerListeners = st.mixerListeners
  /\ actionTime = st.actionTime
  /\ obj3D = st.obj3D
  /\ cameraRotationX = st.cameraRotationX
  /\ config = st.config
  /\ count = st.count
  /\ targets = st.targets
  /\ overlayVisible = st.overlayVisible
  /\ overlayTimers = st.overlayTimers
  /\ killCounterText = st.killCounterText
  /\ currentKillCount = st.currentKillCount
  /\ hitDetected = st.hitDetected
  /\ joystickIsGameOver = st.joystickIsGameOver
  /\ listeners = st.listeners
  /\ seq = st.seq
  /\ delivered = st.delivered
  /\ weaponTransitions = st.weaponTransitions
  /\ frameSteps = st.frameSteps
  /\ rendered = st.rendered

\* the session as it starts: every required asset loaded, initializeGame run
InitWith(cfg) ==
  /\ CURRENT_TARGET_CONFIG = cfg
  /\ LET r == initializeGame(GameManagerConstructor(cfg), cfg, LoadedAssets)
     IN  /\ StartsAs(r.st)
         /\ fbxLoadedMap = r.fbxLoadedMap
         /\ loopStarted = r.loopStarted
         /\ errors = <<>>

Init == \E cfg \in SessionConfigs : InitWith(cfg)

Next == FrameStill \/ OverlayTimer \/ PlayAgain \/ ChangeConfiguration

Spec == Init /\ [][Next]_vars

\* the session with the joysticks in use, on the moving preset
InitMotion == InitWith(MOVING)

NextMotion == FrameMoving \/ OverlayTimer \/ PlayAgain

SpecMotion == InitMotion /\ [][NextMotion]_vars

\* the session on its build-time preset, with frames that keep coming (animate() asks for
\* the next frame before every update, and a started loop can always run a frame, so weak
\* fairness of the frame is: frames happen again and again) and timers that fire
NextLive == FrameStill \/ OverlayTimer \/ PlayAgain

FramesKeepComing == []<><<FrameStill>>_vars

SpecLive == Init /\ [][NextLive]_vars /\ FramesKeepComing /\ WF_vars(OverlayTimer)

\* the session with only the rotate joystick in use
NextRotation == FrameRotating \/ OverlayTimer \/ PlayAgain

SpecRotation == InitMotion /\ [][NextRotation]_vars

\* the session with the player walking and turning, the pitch left alone
NextPosition == FrameWalking \/ OverlayTimer \/ PlayAgain

SpecPosition == InitMotion /\ [][NextPosition]_vars

(***************************************************************************)
(* The EventBus on its own: probe listeners registered with arbitrary      *)
(* priorities on one event, and emits with an argument.                    *)
(***************************************************************************)
Orders == (0 - MaxOrder)..MaxOrder
EmitArgs == {"a", "b"}

BusOn ==
  \E cb \in Probes, order \in Orders :
    /\ Len(listeners["PROBE"]) < MaxRegistrations
    /\ Becomes(on(St, "PROBE", cb, order))

\* the probes' log is cleared, then the event is emitted
BusEmit ==
  \E arg \in EmitArgs : Becomes(emit([St EXCEPT !.delivered = <<>>], "PROBE", arg))

InitBus == InitWith(LINEAR)

\* the registrations the constructors have made
InitBusSeq == initializeGame(GameManagerConstructor(LINEAR), LINEAR, LoadedAssets).st.seq

NextBus == BusOn \/ BusEmit

SpecBus == InitBus /\ [][NextBus]_vars

\* the bus with listeners that register, remove and emit while an emit is running
ReentrantOn ==
  \E cb \in {"p1"} \cup ReentrantProbes :
    /\ Len(listeners["PROBE"]) < MaxReentrant
    /\ seq < InitBusSeq + MaxSeq
    /\ Becomes(on(St, "PROBE", cb, 0))

NestedOn ==
  \E cb \in NestedProbes :
    /\ listeners["NESTED"] = <<>>
    /\ Becomes(on(St, "NESTED", cb, 0))

ReentrantEmit ==
  /\ seq <= InitBusSeq + MaxSeq
  /\ Becomes(emit([St EXCEPT !.delivered = <<>>], "PROBE", "a"))

NextReentrant == ReentrantOn \/ NestedOn \/ ReentrantEmit

SpecReentrant == InitBus /\ [][NextReentrant]_vars

(***************************************************************************)
(* Start-up: assets are loaded into the AssetLoader, the loading manager   *)
(* reports completion, and initializeGame runs on what has been loaded.    *)
(***************************************************************************)
EmptyMap == [key \in {} |-> "object1"]

\* GameManager.loadAssets stores one more entry
LoadFBX ==
  \E key \in AssetKeys, object \in AssetObjects :
    /\ ~loopStarted
    /\ fbxLoadedMap' = loadFBX(fbxLoadedMap, key, object)
    /\ BecomesGame(St)
    /\ UNCHANGED <<loopStarted, errors>>

\* manager.onLoad: loadCompleteCallback runs initializeGame; an exception it throws is
\* not caught
LoadComplete ==
  /\ ~loopStarted
  /\ Len(errors) < MaxInitFailures
  /\ LET r == initializeGame(St, CURRENT_TARGET_CONFIG, fbxLoadedMap)
     IN  /\ BecomesGame(r.st)
         /\ fbxLoadedMap' = r.fbxLoadedMap
         /\ loopStarted' = r.loopStarted
         /\ errors' = IF r.thrown = NoError THEN errors ELSE Append(errors, r.thrown)

InitAssets ==
  /\ CURRENT_TARGET_CONFIG = LINEAR
  /\ StartsAs(GameManagerConstructor(LINEAR))
  /\ fbxLoadedMap = EmptyMap
  /\ loopStarted = FALSE
  /\ errors = <<>>

NextAssets == LoadFBX \/ LoadComplete \/ FrameStill \/ OverlayTimer \/ PlayAgain

SpecAssets == InitAssets /\ [][NextAssets]_vars

(***************************************************************************)
(* Target generation on its own: the target controller is reconfigured     *)
(* with configurations of every layout kind, an unknown one included.      *)
(***************************************************************************)
LayoutConfig(layout, n, rows, cols, baseCount, hp) ==
  [name |-> layout, layout |-> layout, count |-> n, rows |-> rows, cols |-> cols,
   baseCount |-> baseCount, spacing |-> 1, basePosition |-> [x |-> 0, z |-> -2],
   hp |-> hp,
   movement |-> IF layout = "moving"
                  THEN [enabled |-> TRUE, amplitude |-> 1, speed |-> 1, axis |-> "x"]
                  ELSE NoMovement,
   centerPosition |-> [x |-> 0, z |-> -2], radius |-> 1, startAngle |-> 0,
   cosAngle |-> 1, sinAngle |-> 1,
   bounds |-> [minX |-> 0, maxX |-> 1, minZ |-> -2, maxZ |-> -2], minDistance |-> 1]

LayoutHps == 1..2

LayoutConfigsWith(hp) ==
  {LayoutConfig(l, n, 0, 0, 0, hp) :
     l \in {"linear", "circular", "v_formation", "moving", "spiral"}, n \in 0..MaxCount}
  \cup {LayoutConfig("scattered", n, 0, 0, 0, hp) : n \in 0..MaxScattered}
  \cup {LayoutConfig("grid", 0, rows, cols, 0, hp) : rows \in 0..MaxRows, cols \in 0..MaxRows}
  \cup {LayoutConfig("pyramid", 0, rows, 0, baseCount, hp) :
          rows \in 0..MaxRows, baseCount \in 0..MaxCount}

LayoutConfigs == UNION {LayoutConfigsWith(hp) : hp \in LayoutHps}

\* the results the Math.random() calls of one generation can have
Streams(cfg) ==
  IF cfg.layout = "scattered"
    THEN [1..(cfg.count * MAX_ATTEMPTS) ->
            {[x |-> x, z |-> z] : x \in cfg.bounds.minX..cfg.bounds.maxX,
                                  z \in cfg.bounds.minZ..cfg.bounds.maxZ}]
    ELSE {<<>>}

Reconfigure ==
  \E newConfig \in LayoutConfigs :
    \E random \in Streams(newConfig) : Becomes(changeConfiguration(St, newConfig, random))

InitLayout == InitWith(LINEAR)

NextLayout == Reconfigure

SpecLayout == InitLayout /\ [][NextLayout]_vars

(***************************************************************************)
(* Properties                                                              *)
(***************************************************************************)
Eliminated(ts) == {i \in DOMAIN ts : ts[i].eliminated}
Alive(ts) == {i \in DOMAIN ts : ts[i].hp >= 1}
PlayAgainStep == overlayVisible /\ ~overlayVisible'

\* C1: in every reachable state 0 <= magAmmo <= MAX_MAG_AMMO, and whenever hit resolution
\* runs in a frame with magAmmo = 0, whatever the ray meets, it leaves magAmmo at 0, starts
\* or restarts no weapon action and registers no shot.
C1_AmmoInvariant ==
  /\ magAmmo >= 0 /\ magAmmo <= MAX_MAG_AMMO
  /\ \A delta \in 1..MaxDelta, intersects \in Intersections(Len(targets)) :
       LET mid == advance([St EXCEPT !.overlayTimers = TimersAfter(@, delta)], delta)
           r == checkTargetHits(mid, intersects)
       IN  mid.magAmmo = 0 =>
             /\ r.magAmmo = 0 /\ ~r.hitDetected
             /\ r.currentWeaponActionName = mid.currentWeaponActionName
             /\ r.actionTime = mid.actionTime
             /\ r.targets = mid.targets

\* C1 witness: the magazine is empty, Reload has been running for at least one Playing
\* frame whose ray could meet a visible target, and that frame registered no shot.
C1_Witness ==
  /\ magAmmo = 0 /\ ~isGameOver /\ ~hitDetected
  /\ currentWeaponActionName = "reload" /\ actionTime["reload"] >= 1
  /\ \E i \in DOMAIN targets : targets[i].visible

\* C2: the session becomes game-over, with GAME_OVER emitted once, in exactly the step in
\* which killCount first equals min(effective target count, KILL_COUNT_TO_WIN); when the
\* count exceeds the cap, count - cap targets are un-eliminated at that moment.
C2_GameOverExactlyAtThreshold ==
  [][LET n == getTargetCount(config')
         need == Min(n, KILL_COUNT_TO_WIN)
     IN  /\ (~isGameOver /\ isGameOver') <=> (killCount' = killCount + 1 /\ killCount' = need)
         /\ (~isGameOver /\ isGameOver') =>
              /\ Len(overlayTimers') = Len(overlayTimers) + 1
              /\ Cardinality(DOMAIN targets' \ Eliminated(targets')) = n - need]_vars

\* C3: onHit never lowers hp below 0; called on a target whose hp is already 0 it returns
\* false and changes nothing; it returns true only on the hit that takes hp from 1 to 0, so
\* a kill is counted once per target, and an eliminated target's animation is never re-armed.
C3_OnHitIdempotent ==
  /\ [](\A i \in DOMAIN targets :
          LET r == onHit(targets[i])
          IN  /\ targets[i].hp >= 0 /\ r[1].hp >= 0
              /\ (targets[i].hp = 0 => r = <<targets[i], FALSE>>)
              /\ (r[2] => (targets[i].hp = 1 /\ r[1].hp = 0)))
  /\ [][/\ \A i \in DOMAIN targets \cap DOMAIN targets' :
             (targets[i].hp = 0 /\ targets'[i].hp = 0) =>
               /\ targets'[i].animationProgress >= targets[i].animationProgress
               /\ (targets'[i].isAnimating => targets[i].isAnimating)
               /\ targets'[i].startRotation = targets[i].startRotation
        /\ (killCount' > killCount) =>
             /\ killCount' = killCount + 1
             /\ Cardinality({i \in DOMAIN targets : targets[i].hp = 1 /\ targets'[i].hp = 0}) = 1
       ]_vars

\* C3 witness: a shot has just landed on a target that was eliminated in an earlier frame
\* and is still playing its elimination animation; it is the only target ever hit.
C3_Witness ==
  /\ hitDetected /\ killCount = 1 /\ magAmmo = MAX_MAG_AMMO - 2 /\ config.hp = 1
  /\ \E i \in DOMAIN targets :
       /\ targets[i].hp = 0 /\ targets[i].isAnimating /\ targets[i].animationProgress >= 1
       /\ \A j \in DOMAIN targets \ {i} : targets[j].hp = config.hp

\* C4: the first h-1 hits on a target created with hp = h leave it un-eliminated and
\* killCount unchanged, the h-th eliminates it and raises killCount by exactly 1; when all N
\* targets (N <= KILL_COUNT_TO_WIN) have been eliminated killCount = N, and the shot that
\* completes the N-th elimination triggers game-over.
C4_HitsKillsAndWin ==
  [][/\ \A i \in DOMAIN targets \cap DOMAIN targets' :
          (targets'[i].hp = targets[i].hp - 1) =>
             /\ targets'[i].eliminated = (targets'[i].hp = 0)
             /\ killCount' = killCount + (IF targets'[i].hp = 0 THEN 1 ELSE 0)
     /\ LET n == Len(targets')
        IN  (killCount' = killCount + 1 /\ Eliminated(targets') = DOMAIN targets'
             /\ n <= KILL_COUNT_TO_WIN) =>
              (killCount' = n /\ ~isGameOver /\ isGameOver')]_vars

\* C5: a handled PLAY_AGAIN leaves killCount = 0, isGameOver false, yaw = pitch = 0, every
\* target at config.hp, visible, not eliminated, not animating and at its start position,
\* magAmmo = MAX_MAG_AMMO and the player and camera transforms equal to the snapshot.
AfterPlayAgain ==
  /\ killCount = 0 /\ ~isGameOver
  /\ rotationState = [yaw |-> 0, pitch |-> 0]
  /\ \A i \in DOMAIN targets :
       /\ targets[i].hp = config.hp /\ targets[i].visible
       /\ ~targets[i].eliminated /\ ~targets[i].isAnimating
       /\ targets[i].position = targets[i].startPosition
       /\ targets[i].rotation = 0
  /\ magAmmo = MAX_MAG_AMMO
  /\ obj3D = [x |-> PLAYER_INITIAL_POSITION.x, z |-> PLAYER_INITIAL_POSITION.z,
              rotationY |-> 0]
  /\ cameraRotationX = 0

C5_PlayAgainRoundTrip == [][PlayAgainStep => AfterPlayAgain']_vars

\* C5 witness: play-again has just been handled (Deploy restarted, overlay hidden) in a
\* session whose last shot emptied the magazine: its Reload is still in flight.
C5_Witness ==
  /\ AfterPlayAgain /\ ~overlayVisible
  /\ currentWeaponActionName = "deploy" /\ actionTime["deploy"] = 0
  /\ actionTime["reload"] # -1

\* C6: the weapon's current action changes only along Deploy->Idle, Idle->Fire,
\* Fire->Idle, Fire->Reload and Reload->Idle, or into Deploy at session start and on
\* play-again; Fire starts only from Idle, and Reload only from Fire with magAmmo = 0.
C6_WeaponTransitions ==
  \A i \in DOMAIN weaponTransitions :
    LET t == weaponTransitions[i]
    IN  \/ <<t.from, t.to>> \in {<<"deploy", "idle">>, <<"idle", "fire">>,
                                 <<"fire", "idle">>, <<"reload", "idle">>}
        \/ <<t.from, t.to>> = <<"fire", "reload">> /\ t.magAmmo = 0
        \/ t.to = "deploy"

\* C7: whenever the session is game-over, canFire is false.
C7_NoFireWhileGameOver == isGameOver => ~canFire

\* C8: an emit invokes every registration exactly once, with the emitted argument, in
\* ascending order of (priority value, registration sequence).
Registrations == {listeners["PROBE"][i] : i \in DOMAIN listeners["PROBE"]}
Rank(r) ==
  1 + Cardinality({q \in Registrations :
                     q.order < r.order \/ (q.order = r.order /\ q.seq < r.seq)})

C8_EmitOrder ==
  [][delivered' # delivered =>
       /\ listeners' = listeners
       /\ Len(delivered') = Len(listeners["PROBE"])
       /\ Cardinality(Registrations) = Len(listeners["PROBE"])
       /\ \E arg \in EmitArgs :
            \A r \in Registrations : delivered'[Rank(r)] = <<r.cb, arg>>]_vars

\* C8 witness: an emit has been delivered to three registrations, where a listener
\* registered later with a lower priority value ran before an earlier one, and one
\* callback registered twice ran twice.
C8_Witness ==
  /\ Len(delivered) = 3 /\ Len(listeners["PROBE"]) = 3
  /\ \E i, j \in DOMAIN listeners["PROBE"] :
       /\ i < j /\ listeners["PROBE"][i].seq > listeners["PROBE"][j].seq
       /\ delivered[i][1] = listeners["PROBE"][i].cb
  /\ \E i, j \in DOMAIN delivered : i # j /\ delivered[i][1] = delivered[j][1]

\* C9: the win threshold used by hit resolution and shown by the kill counter equals
\* min(effective target count of the target controller's configuration, KILL_COUNT_TO_WIN).
C9_ThresholdFollowsConfiguration ==
  /\ getEffectiveKillCountToWin = Min(getTargetCount(config), KILL_COUNT_TO_WIN)
  /\ killCounterText[2] = Min(getTargetCount(config), KILL_COUNT_TO_WIN)

\* C10: in every Playing state the kill threshold does not exceed killCount plus the
\* number of targets that can still be eliminated.
C10_AlwaysWinnable ==
  ~isGameOver => getEffectiveKillCountToWin <= killCount + Cardinality(Alive(targets))

(***************************************************************************)
(* The state in which a still frame of length delta reaches hit resolution *)
(***************************************************************************)
Mid(delta) == advance([St EXCEPT !.overlayTimers = TimersAfter(@, delta)], delta)
Aimed(delta) == playerUpdate(updateRotation(Mid(delta), Zero, delta), Zero, delta)

\* C11: when the nearest ray hit is a target with hp 0 that is still visible, hit resolution
\* changes nothing: the targets, killCount, magAmmo, canFire and the weapon's current
\* action are as before.
C11_ShotOnEliminatedTargetIgnored ==
  \A delta \in 1..MaxDelta, intersects \in Intersections(Len(targets)) :
    LET s == Aimed(delta)
        r == checkTargetHits(s, intersects)
    IN  (/\ ~s.isGameOver /\ Len(intersects) > 0
         /\ s.targets[intersects[1]].hp = 0 /\ s.targets[intersects[1]].visible) =>
          /\ r.targets = s.targets /\ r.killCount = s.killCount
          /\ r.magAmmo = s.magAmmo /\ r.canFire = s.canFire
          /\ r.currentWeaponActionName = s.currentWeaponActionName

\* C12: when the weapon is ready and the ray meets at least one visible target, the hit is
\* applied to the nearest visible target on the ray and to no other; hidden targets in
\* front of it do not prevent the hit.
C12_NearestVisibleTargetIsHit ==
  \A delta \in 1..MaxDelta, intersects \in Intersections(Len(targets)) :
    LET s == Aimed(delta)
        r == checkTargetHits(s, intersects)
        vis == {k \in DOMAIN intersects : s.targets[intersects[k]].visible}
    IN  (~s.isGameOver /\ isWeaponReady(s) /\ vis # {}) =>
          LET k == CHOOSE m \in vis : \A n \in vis : m <= n
              i == intersects[k]
          IN  /\ r.hitDetected
              /\ r.targets[i] = onHit(s.targets[i])[1]
              /\ \A j \in DOMAIN s.targets \ {i} : r.targets[j] = s.targets[j]

C14_WinAndAnimationInSameFrame ==
  [][(~isGameOver /\ isGameOver') =>
       \E i \in DOMAIN targets' :
         /\ ~targets[i].eliminated /\ targets'[i].eliminated /\ targets'[i].isAnimating
         /\ rendered'[i].isAnimating /\ rendered'[i].rotation = targets'[i].rotation]_vars

\* C15: the number of targets generated for a configuration equals its effective target
\* count: rows x cols for Grid, the sum over r in [0, rows) of (baseCount - r) for Pyramid,
\* config.count for every other layout; getTargetCount reports that number.
EffectiveCount(cfg) ==
  IF cfg.layout = "grid" THEN cfg.rows * cfg.cols
  ELSE IF cfg.layout = "pyramid"
    THEN cfg.rows * cfg.baseCount - (cfg.rows * (cfg.rows - 1)) \div 2
  ELSE cfg.count

C15_GeneratedCountIsEffectiveCount ==
  /\ Len(targets) = EffectiveCount(config)
  /\ getTargetCount(config) = EffectiveCount(config)

KnownLayouts ==
  {"linear", "circular", "grid", "v_formation", "scattered", "pyramid", "moving"}

\* C19: for a configuration whose layout is not a known kind, the targets generated are
\* the Linear ones, config.count positions from basePosition spaced by spacing along x,
\* and the effective target count is config.count.
C19_UnknownLayoutFallsBackToLinear ==
  config.layout \notin KnownLayouts =>
    /\ Len(targets) = config.count
    /\ \A i \in DOMAIN targets :
         /\ targets[i].position = [x |-> config.basePosition.x + (i - 1) * config.spacing,
                                   z |-> config.basePosition.z]
         /\ targets[i].hp = config.hp /\ targets[i].visible
    /\ getTargetCount(config) = config.count /\ count = config.count

\* C19 witness: the controller has been reconfigured with an unknown layout and holds
\* MaxCount targets in a row.
C19_Witness ==
  /\ config.layout \notin KnownLayouts /\ Len(targets) = MaxCount
  /\ targets[MaxCount].position.x = config.basePosition.x + (MaxCount - 1) * config.spacing

\* C16: the pitch is always within [-PITCH_CLAMP, PITCH_CLAMP]; an updateRotation call
\* whose integrated pitch would pass a boundary leaves the pitch exactly on that boundary,
\* one that stays inside leaves the integrated value; the yaw is the integrated value,
\* whatever its size.
C16_PitchClampedYawFree ==
  /\ rotationState.pitch >= 0 - PITCH_CLAMP /\ rotationState.pitch <= PITCH_CLAMP
  /\ \A delta \in 0..MaxDelta, joystickInput \in StickSamples :
       LET r == updateRotation(St, joystickInput, delta).rotationState
           pitch == rotationState.pitch - joystickInput.y * delta * ROTATION_SPEED
       IN  /\ pitch > PITCH_CLAMP => r.pitch = PITCH_CLAMP
           /\ pitch < 0 - PITCH_CLAMP => r.pitch = 0 - PITCH_CLAMP
           /\ (pitch >= 0 - PITCH_CLAMP /\ pitch <= PITCH_CLAMP) => r.pitch = pitch
           /\ r.yaw = rotationState.yaw - joystickInput.x * delta * ROTATION_SPEED

\* C16 witness: the pitch sits on the lower boundary after pitch input, while the yaw has
\* been integrated past the size of the clamp.
C16_Witness ==
  /\ rotationState.pitch = 0 - PITCH_CLAMP
  /\ rotationState.yaw > PITCH_CLAMP
  /\ cameraRotationX = 0 - PITCH_CLAMP

\* C17: the player's x and z are always inside [MIN_X, MAX_X] x [MIN_Z, MAX_Z], the initial
\* position and the play-again snapshot included; a player update clamps each axis on its
\* own (an axis whose new value is inside the bounds keeps it), and a whole frame with zero
\* movement input leaves the position unchanged.
Clamp(lo, hi, v) == IF v < lo THEN lo ELSE IF v > hi THEN hi ELSE v

C17_PlayerStaysInBounds ==
  /\ obj3D.x >= MIN_X /\ obj3D.x <= MAX_X /\ obj3D.z >= MIN_Z /\ obj3D.z <= MAX_Z
  /\ initialData.obj3D.x >= MIN_X /\ initialData.obj3D.x <= MAX_X
  /\ initialData.obj3D.z >= MIN_Z /\ initialData.obj3D.z <= MAX_Z
  /\ \A delta \in 0..MaxDelta, direction \in AxisAlignedSamples :
       LET r == playerUpdate(St, direction, delta).obj3D
           d == applyAxisAngle(normalize(direction), rotationState.yaw)
       IN  IF direction = Zero
             THEN r.x = obj3D.x /\ r.z = obj3D.z
             ELSE /\ r.x = Clamp(MIN_X, MAX_X, obj3D.x + d.x * MOVE_SPEED * delta)
                  /\ r.z = Clamp(MIN_Z, MAX_Z, obj3D.z + d.y * MOVE_SPEED * delta)
  /\ \A delta \in 1..MaxDelta, rotateInput \in {Zero, [x |-> 1, y |-> 1]} :
       LET r == update(St, delta, rotateInput, Zero, <<>>).obj3D
       IN  r.x = obj3D.x /\ r.z = obj3D.z

\* C17 witness: the player has been moved into the corner opposite to the initial
\* position while turned by a quarter turn.
C17_Witness ==
  /\ obj3D.x = MIN_X /\ obj3D.z = MIN_Z
  /\ obj3D.rotationY % 4 = 1
  /\ initialData.obj3D.z # MIN_Z

\* C18: getFBX throws for every key that is not loaded and returns the stored object
\* for a loaded one, leaving the map as it is; an initializeGame run that misses a required
\* asset throws, does not reach startGameLoop and leaves the map alone, so the frame loop
\* runs only when every required asset is loaded, and no frame has run before.
C18_MissingAssetAbortsInitialization ==
  /\ \A key \in AssetKeys :
       LET r == getFBX(fbxLoadedMap, key)
       IN  /\ r.fbxLoadedMap = fbxLoadedMap
           /\ IF key \in DOMAIN fbxLoadedMap
                THEN r.thrown = NoError /\ r.value = fbxLoadedMap[key]
                ELSE r.thrown # NoError
  /\ LET r == initializeGame(St, CURRENT_TARGET_CONFIG, fbxLoadedMap)
     IN  /\ r.fbxLoadedMap = fbxLoadedMap
         /\ ~(RequiredAssets \subseteq DOMAIN fbxLoadedMap) =>
              r.thrown # NoError /\ ~r.loopStarted
  /\ loopStarted => RequiredAssets \subseteq DOMAIN fbxLoadedMap
  /\ ~loopStarted => frameSteps = <<>> /\ rendered = <<>>

\* C18 witness: initializeGame has been aborted twice, the second time for the target
\* model, which was loaded under a wrong key: the player controller exists, the loop does
\* not run.
C18_Witness ==
  /\ Len(errors) = MaxInitFailures /\ ~loopStarted
  /\ errors[Len(errors)] = "FBX DOES NOT EXIST WITH GIVEN KEY: dummyTargetFBXBase64"
  /\ errors[1] = "FBX DOES NOT EXIST WITH GIVEN KEY: mergedFBXBase64"
  /\ DOMAIN fbxLoadedMap = AssetKeys \ {"dummyTargetFBXBase64"}
  /\ currentWeaponActionName = "deploy" /\ targets = <<>> /\ rendered = <<>>

\* the starts of Fire and the SHOOTING events of the handler that produced st
FireStarts(st) ==
  Cardinality({i \in DOMAIN st.weaponTransitions : st.weaponTransitions[i].to = "fire"})
Shootings(st) == Cardinality({i \in DOMAIN st.emitted : st.emitted[i] = "SHOOTING"})

\* C20: in a frame, magAmmo decreases at hit resolution exactly when the weapon is ready
\* and the nearest intersection is a visible target; it then decreases by one, with one
\* start of Fire, one SHOOTING event and a hit-marker request, and otherwise none of these
\* happen; a frame without intersection consumes no ammo and starts no Fire.
C20_AmmoConsumedIffVisibleHit ==
  \A delta \in 1..MaxDelta, intersects \in Intersections(Len(targets)) :
    LET s == Aimed(delta)
        r == update([St EXCEPT !.overlayTimers = TimersAfter(@, delta)], delta, Zero, Zero,
                    intersects)
        hit == /\ isWeaponReady(s) /\ Len(intersects) > 0
               /\ s.targets[intersects[1]].visible
    IN  /\ r.magAmmo < s.magAmmo <=> hit
        /\ IF r.magAmmo < s.magAmmo
             THEN /\ r.magAmmo = s.magAmmo - 1
                  /\ FireStarts(r) = 1 /\ Shootings(r) = 1 /\ r.hitDetected
             ELSE /\ r.magAmmo = s.magAmmo
                  /\ FireStarts(r) = 0 /\ Shootings(r) = 0 /\ ~r.hitDetected
        /\ Len(intersects) = 0 => r.magAmmo = s.magAmmo /\ FireStarts(r) = 0

\* C21: while the game is over a frame, whatever the joysticks and the ray give, leaves
\* yaw, pitch, the player's position and orientation, every target's hp and killCount as
\* they are and consumes no ammo; it advances the weapon and target animations and
\* renders, and both joysticks are flagged game-over.
C21_GameOverFrameOnlyAnimates ==
  isGameOver =>
    /\ joystickIsGameOver = <<TRUE, TRUE>>
    /\ \A delta \in 1..MaxDelta, rotateInput \in AxisAlignedSamples,
          moveInput \in AxisAlignedSamples, intersects \in Intersections(Len(targets)) :
         LET s == [St EXCEPT !.overlayTimers = TimersAfter(@, delta)]
             r == update(s, delta, rotateInput, moveInput, intersects)
         IN  /\ r.rotationState = rotationState
             /\ r.obj3D = obj3D /\ r.cameraRotationX = cameraRotationX
             /\ r.killCount = killCount /\ r.isGameOver
             /\ \A i \in DOMAIN targets : r.targets[i].hp = targets[i].hp
             /\ r.magAmmo >= magAmmo /\ FireStarts(r) = 0 /\ ~r.hitDetected
             /\ r.frameSteps = <<"updateMixer", "updateAnimations", "render">>
             /\ r.targets = updateAnimations(s, delta).targets
             /\ r.actionTime = updateMixer(s, delta).actionTime
             /\ r.rendered = Scene(r)

\* C21 witness: a game-over frame has just run, away from the initial position and yaw,
\* and has advanced the weapon's Fire into Reload and a target's elimination animation.
C21_Witness ==
  /\ isGameOver /\ frameSteps = <<"updateMixer", "updateAnimations", "render">>
  /\ obj3D.x # initialData.obj3D.x /\ rotationState.yaw # 0
  /\ currentWeaponActionName = "reload" /\ actionTime["fire"] = -1
  /\ \E i \in DOMAIN targets :
       targets[i].visible /\ targets[i].isAnimating /\ targets[i].animationProgress > 0

\* C22: with an empty magazine the weapon is in Fire or in Reload and cannot fire; Fire
\* with an empty magazine is followed by Reload from its first frame; as frames keep
\* coming the weapon reaches Idle with a full magazine and canFire true; and magAmmo
\* leaves 0 only in a frame in which the running Reload completes, or by play-again.
ReloadCompletes ==
  /\ currentWeaponActionName = "reload" /\ actionTime["reload"] # -1
  /\ actionTime'["reload"] = -1
  /\ \E i \in DOMAIN weaponTransitions' :
       /\ weaponTransitions'[i].from = "reload" /\ weaponTransitions'[i].to = "idle"
       /\ weaponTransitions'[i].magAmmo = MAX_MAG_AMMO

\* the weapon is, or has in the last step been, put into Idle with a full magazine; the
\* completion callbacks set canFire before they start Idle
ReachedIdleFull ==
  \/ currentWeaponActionName = "idle" /\ magAmmo = MAX_MAG_AMMO /\ canFire
  \/ \E i \in DOMAIN weaponTransitions :
       weaponTransitions[i].to = "idle" /\ weaponTransitions[i].magAmmo = MAX_MAG_AMMO

C22_EmptyMagazineReloads ==
  /\ [](magAmmo = 0 => ~canFire /\ currentWeaponActionName \in {"fire", "reload"})
  /\ [][(magAmmo = 0 /\ currentWeaponActionName = "fire" /\ ~PlayAgainStep
           /\ currentWeaponActionName' # "fire") =>
          currentWeaponActionName' = "reload" /\ actionTime'["reload"] = 0 /\ magAmmo' = 0]_vars
  /\ [][(magAmmo = 0 /\ magAmmo' > 0) => (PlayAgainStep \/ ReloadCompletes)]_vars
  /\ (magAmmo = 0) ~> ReachedIdleFull

\* C22 witness: Reload has just completed in a session that is still being played: the
\* weapon is Idle with a full magazine and may fire.
C22_Witness ==
  /\ ~isGameOver /\ killCount > 0
  /\ currentWeaponActionName = "idle" /\ magAmmo = MAX_MAG_AMMO /\ canFire
  /\ \E i \in DOMAIN weaponTransitions :
       weaponTransitions[i].from = "reload" /\ weaponTransitions[i].to = "idle"

\* C23: every play-again step leaves Deploy current and at its first frame, and no other
\* non-looping weapon action (Fire, Reload) still running towards its completion.
C23_PlayAgainLeavesOnlyDeployRunning ==
  [][PlayAgainStep =>
       /\ currentWeaponActionName' = "deploy"
       /\ actionTime'["deploy"] = 0
       /\ actionTime'["fire"] = -1
       /\ actionTime'["reload"] = -1]_vars

\* C24: in every reachable state canFire is true only while the current weapon action is
\* Idle; it is false throughout Deploy, Fire and Reload.
C24_CanFireOnlyInIdle == canFire => currentWeaponActionName = "idle"

\* target i is hidden by this step, and the step is a frame in which its elimination
\* animation completes
HiddenByCompletion(i) ==
  /\ "updateAnimations" \in {frameSteps'[k] : k \in DOMAIN frameSteps'}
  /\ targets[i].eliminated /\ targets[i].isAnimating
  /\ targets[i].animationProgress < ANIMATION_DURATION
  /\ targets'[i].animationProgress >= ANIMATION_DURATION
  /\ ~targets'[i].isAnimating
  /\ targets'[i].rotation = ROTATION_X

\* C25: a target's visible flag turns false only in a frame whose animation step takes its
\* elimination progress to the full duration, with the rotation set to the target rotation
\* and isAnimating cleared; and as frames keep coming every eliminated target becomes
\* hidden (or is reset), during game-over as well.
C25_HiddenOnlyAndEventuallyByCompletion ==
  /\ [][\A i \in DOMAIN targets :
          (i \in DOMAIN targets' /\ targets[i].visible /\ ~targets'[i].visible)
            => HiddenByCompletion(i)]_vars
  /\ \A i \in 1..MaxCount :
       (i \in DOMAIN targets /\ targets[i].eliminated)
         ~> (i \in DOMAIN targets /\ (~targets[i].visible \/ ~targets[i].eliminated))

\* C25 witness: the game is over and an eliminated target has been hidden by its completed
\* animation, at the target rotation.
C25_Witness ==
  /\ isGameOver /\ frameSteps # <<>>
  /\ \E i \in DOMAIN targets :
       /\ targets[i].eliminated /\ ~targets[i].visible /\ ~targets[i].isAnimating
       /\ targets[i].rotation = ROTATION_X
       /\ targets[i].animationProgress >= ANIMATION_DURATION

\* C26: the step that makes the session game-over leaves the overlay hidden and a
\* showGameOverOverlay callback pending; the overlay becomes visible only by that callback,
\* once its delay has elapsed; it is never visible while the session is Playing; and the
\* play-again handler hides it before it emits PLAY_AGAIN, whose listeners then end game-over.
C26_OverlayShownLateHiddenFirst ==
  /\ [][(~isGameOver /\ isGameOver') =>
          (~overlayVisible' /\ overlayTimers' # <<>> /\ Head(overlayTimers') = 0)]_vars
  /\ [][(~overlayVisible /\ overlayVisible') =>
          /\ overlayTimers # <<>> /\ Head(overlayTimers) >= OVERLAY_DELAY
          /\ overlayTimers' = Tail(overlayTimers)
          /\ frameSteps' = <<>>]_vars
  /\ [](overlayVisible => isGameOver)
  /\ [][PlayAgainStep =>
          LET h == hideGameOverOverlay(St)
              r == emit(h, "PLAY_AGAIN", "none")
          IN  /\ ~h.overlayVisible /\ h.isGameOver /\ h.emitted = <<>>
              /\ Head(r.emitted) = "PLAY_AGAIN"
              /\ isGameOver' = r.isGameOver /\ ~isGameOver'
              /\ targets' = r.targets /\ killCount' = r.killCount]_vars

\* C26 witness: the game is over and the pending callback has just shown the overlay.
C26_Witness ==
  /\ isGameOver /\ overlayVisible /\ overlayTimers = <<>> /\ frameSteps = <<>>
  /\ killCount >= 1

\* C27: in every reachable state, whatever the targets have been through, changing to any
\* preset leaves as the collection (and so as the scene content and the owners of the
\* animation and movement state) exactly one target per position generated from the new
\* configuration, in order: hp = newConfig.hp, visible, not eliminated, not animating, at
\* rest, with movement state exactly when the new configuration is a moving one.
C27_ReconfigurationReplacesTargets ==
  \A newConfig \in {LINEAR, GRID, PYRAMID, MOVING} :
    LET r == changeConfiguration(St, newConfig, <<>>)
        positions == calculateTargetPositions(newConfig, <<>>)
        moving == (newConfig.layout = "moving" /\ newConfig.movement.enabled)
    IN  /\ r.config = newConfig
        /\ Len(r.targets) = Len(positions)
        /\ Len(Scene(r)) = Len(positions)
        /\ \A i \in DOMAIN r.targets :
             /\ r.targets[i].position = positions[i]
             /\ r.targets[i].hp = newConfig.hp
             /\ r.targets[i].visible /\ Scene(r)[i].visible
             /\ ~r.targets[i].eliminated
             /\ ~r.targets[i].isAnimating /\ r.targets[i].animationProgress = 0
             /\ r.targets[i].rotation = 0
             /\ r.targets[i].hasMoveState = moving
             /\ moving => (r.targets[i].time = 0 /\ r.targets[i].startPosition = positions[i])

\* C27 witness: the configuration has been changed away from the build-time preset after
\* a target had been eliminated, and every target of the collection is a new one.
C27_Witness ==
  /\ config # CURRENT_TARGET_CONFIG /\ killCount > 0 /\ frameSteps = <<>>
  /\ Len(targets) = Len(calculateTargetPositions(config, <<>>))
  /\ \A i \in DOMAIN targets :
       targets[i].visible /\ ~targets[i].eliminated /\ targets[i].hp = config.hp

\* C28: in every reachable state, playWeaponAnim called with the current action's name,
\* with any completion callback and either loop mode, returns the state it was given: the
\* action's time, currentWeaponActionName and the registered completion callbacks are as
\* before, and no transition is logged.
C28_ReplayOfCurrentActionIsNoOp ==
  \A onCompleteCallback \in {"none", "deployComplete", "fireComplete", "reloadComplete"},
     loop \in BOOLEAN :
    LET r == playWeaponAnim(St, currentWeaponActionName, onCompleteCallback, loop)
    IN  /\ r.currentWeaponActionName = currentWeaponActionName
        /\ r.actionTime = actionTime
        /\ r.mixerListeners = mixerListeners
        /\ r.weaponTransitions = <<>>
        /\ r = St

\* C28 witness: Fire is current and part-way through, with its completion callback
\* registered, so that a restart or a second registration would show.
C28_Witness ==
  /\ currentWeaponActionName = "fire"
  /\ actionTime["fire"] > 0 /\ actionTime["fire"] < FireDuration
  /\ mixerListeners = <<"fireComplete">>

RECURSIVE ScatterLog(_, _, _, _)
ScatterLog(cfg, i, positions, random) ==
  IF i < cfg.count
    THEN LET placed == ScatterAttempt(cfg, positions, random, 0)
         IN  <<[position |-> placed[1], attempts |-> Len(random) - Len(placed[2])]>>
               \o ScatterLog(cfg, i + 1, Append(positions, placed[1]), placed[2])
    ELSE <<>>

InBounds(cfg, position) ==
  /\ position.x >= cfg.bounds.minX /\ position.x <= cfg.bounds.maxX
  /\ position.z >= cfg.bounds.minZ /\ position.z <= cfg.bounds.maxZ

DistanceSq(p, q) == (p.x - q.x) * (p.x - q.x) + (p.z - q.z) * (p.z - q.z)

\* C30: for a scattered configuration the generated targets are config.count points inside
\* the bounds, and whatever Math.random() returns, the generation yields config.count
\* points inside the bounds, each after at least one and at most MAX_ATTEMPTS samples, and
\* every point accepted before its last allowed sample is at least minDistance away from
\* every point accepted before it.
C30_ScatteredGeneration ==
  config.layout = "scattered" =>
    /\ Len(targets) = config.count
    /\ \A i \in DOMAIN targets : InBounds(config, targets[i].position)
    /\ \A random \in Streams(config) :
         LET log == ScatterLog(config, 0, <<>>, random)
         IN  /\ Len(log) = config.count
             /\ [k \in DOMAIN log |-> log[k].position]
                  = calculateScatteredPositions(config, random)
             /\ \A k \in DOMAIN log :
                  /\ InBounds(config, log[k].position)
                  /\ log[k].attempts >= 1 /\ log[k].attempts <= MAX_ATTEMPTS
                  /\ log[k].attempts < MAX_ATTEMPTS =>
                       \A j \in 1..(k - 1) :
                         DistanceSq(log[k].position, log[j].position)
                           >= config.minDistance * config.minDistance

\* C30 witness: a scattered generation has run out of attempts for its second point and
\* accepted it on top of the first.
C30_Witness ==
  /\ config.layout = "scattered" /\ Len(targets) = 2
  /\ targets[1].position = targets[2].position

\* C31: without runtime reconfiguration, in every reachable state killCount is the number
\* of targets whose eliminated flag is set; no step but play-again lowers killCount, and
\* no step raises it by more than 1.
C31_KillCountIsEliminatedCount ==
  /\ [](killCount = Cardinality(Eliminated(targets)))
  /\ [][~PlayAgainStep => killCount' >= killCount]_vars
  /\ [][killCount' <= killCount + 1]_vars

\* C31 witness: a Playing frame has eliminated one target of several and the count is 1.
C31_Witness ==
  /\ ~isGameOver /\ killCount = 1 /\ hitDetected
  /\ "checkTargetHits" \in {frameSteps[k] : k \in DOMAIN frameSteps}
  /\ Cardinality(Eliminated(targets)) = 1 /\ Len(targets) > 1

\* C32: at most one completion callback is pending on the mixer in any reachable state,
\* and the pending one is the callback of the current action.
C32_OnePendingCompletionCallback ==
  /\ Len(mixerListeners) <= 1
  /\ \A k \in DOMAIN mixerListeners :
       mixerListeners[k] =
         (CASE currentWeaponActionName = "deploy" -> "deployComplete"
            [] currentWeaponActionName = "fire" -> "fireComplete"
            [] currentWeaponActionName = "reload" -> "reloadComplete"
            [] OTHER -> "none")

\* C33: for every target in every reachable state: 0 <= hp <= config.hp; it is eliminated
\* exactly when hp = 0; a hidden target is eliminated and not animating; an animating
\* target is eliminated and visible.
C33_TargetStateInvariant ==
  \A i \in DOMAIN targets :
    /\ targets[i].hp >= 0 /\ targets[i].hp <= config.hp
    /\ targets[i].eliminated <=> targets[i].hp = 0
    /\ ~targets[i].visible => (targets[i].eliminated /\ ~targets[i].isAnimating)
    /\ targets[i].isAnimating => (targets[i].eliminated /\ targets[i].visible)

\* C33 witness: of three targets one is untouched, one is eliminated and animating, and
\* one is eliminated and hidden.
C33_Witness ==
  \E i, j, k \in DOMAIN targets :
    /\ targets[i].hp = config.hp /\ ~targets[i].eliminated /\ targets[i].visible
    /\ targets[j].eliminated /\ targets[j].isAnimating /\ targets[j].visible
    /\ targets[k].eliminated /\ ~targets[k].visible /\ ~targets[k].isAnimating

\* what one emit logs: every listener of the list as it was when the emit began, in
\* order, and right after each one that emits NESTED, the listeners of NESTED
RECURSIVE ExpectedLog(_, _, _)
ExpectedLog(snapshot, nested, arg) ==
  IF snapshot = <<>> THEN <<>>
  ELSE <<<<Head(snapshot).cb, arg>>>>
         \o (IF Head(snapshot).cb = "nester"
               THEN [j \in DOMAIN nested |-> <<nested[j].cb, arg>>] ELSE <<>>)
         \o ExpectedLog(Tail(snapshot), nested, arg)

Callbacks(ls) == {ls[k].cb : k \in DOMAIN ls}
Registered(ls, cb) == Cardinality({k \in DOMAIN ls : ls[k].cb = cb})

\* C34: in every reachable state an emit invokes exactly the listeners registered when it
\* began, in order: one registered during the emit is not invoked, one removed during the
\* emit still is; the listener list after the emit holds the registration and lacks the
\* removed callback, and the next emit delivers to that list; and the listeners of an
\* event emitted from inside a listener all run before the outer emit's next listener.
C34_EmitDeliversToSnapshot ==
  \A arg \in EmitArgs :
    LET snapshot == listeners["PROBE"]
        r == emit([St EXCEPT !.delivered = <<>>], "PROBE", arg)
        next == emit([r EXCEPT !.delivered = <<>>], "PROBE", arg)
    IN  /\ r.delivered = ExpectedLog(snapshot, listeners["NESTED"], arg)
        /\ "remover" \in Callbacks(snapshot) => "p1" \notin Callbacks(r.listeners["PROBE"])
        /\ ("adder" \in Callbacks(snapshot) /\ Len(snapshot) < MaxReentrant) =>
             Registered(r.listeners["PROBE"], "p2") > Registered(snapshot, "p2")
        /\ next.delivered = ExpectedLog(r.listeners["PROBE"], r.listeners["NESTED"], arg)

\* C34 witness: one emit has invoked p1 after the listener that removed it, has not invoked
\* the p2 that was registered during it, and has run a nested emit's listener between two
\* of its own.
C34_Witness ==
  /\ \E i, j \in DOMAIN delivered :
       i < j /\ delivered[i][1] = "remover" /\ delivered[j][1] = "p1"
  /\ "p1" \notin Callbacks(listeners["PROBE"])
  /\ \E i \in DOMAIN delivered : delivered[i][1] = "adder"
  /\ "p2" \in Callbacks(listeners["PROBE"])
  /\ \A i \in DOMAIN delivered : delivered[i][1] # "p2"
  /\ \E i \in DOMAIN delivered :
       /\ delivered[i][1] = "nester"
       /\ i + 2 \in DOMAIN delivered
       /\ delivered[i + 1][1] \in NestedProbes
       /\ delivered[i + 2][1] \notin NestedProbes

\* C35: in every Playing state and for whatever the ray meets, the hit resolution of the
\* coming frame emits, for a shot that wins, exactly KILL_COUNT_UPDATE, GAME_OVER, SHOOTING
\* in that order; for any other eliminating shot exactly KILL_COUNT_UPDATE, SHOOTING; and
\* the count that KILL_COUNT_UPDATE carries (shown by the kill counter) is the incremented one.
C35_WinningShotEmitOrder ==
  ~isGameOver =>
    \A delta \in 1..MaxDelta, intersects \in Intersections(Len(targets)) :
      LET s == Aimed(delta)
          r == checkTargetHits(s, intersects)
      IN  /\ s.emitted = <<>>
          /\ r.killCount = s.killCount + 1 =>
               /\ r.currentKillCount = s.killCount + 1
               /\ r.emitted = IF r.isGameOver
                                THEN <<"KILL_COUNT_UPDATE", "GAME_OVER", "SHOOTING">>
                                ELSE <<"KILL_COUNT_UPDATE", "SHOOTING">>
          /\ r.isGameOver => r.killCount = s.killCount + 1
          /\ r.killCount = s.killCount =>
               \A k \in DOMAIN r.emitted : r.emitted[k] # "KILL_COUNT_UPDATE"

\* C35 witness: the last frame resolved the winning shot, and the kill counter shows the
\* count of the win.
C35_Witness ==
  /\ isGameOver /\ hitDetected /\ overlayTimers = <<0>>
  /\ "checkTargetHits" \in {frameSteps[k] : k \in DOMAIN frameSteps}
  /\ killCount >= 1 /\ currentKillCount = killCount
  /\ currentWeaponActionName = "fire" /\ actionTime["fire"] = 0

\* some weapon action reaches its end within delta
CompletesWithin(delta) ==
  \E a \in NonLoopingActions :
    actionTime[a] # -1 /\ actionTime[a] + delta >= Duration(a)

\* the targets of ts that have less hp in us
Damaged(ts, us) == {i \in DOMAIN ts : us[i].hp < ts[i].hp}

\* C36: whenever the weapon is not ready (canFire false or magAmmo = 0) when a frame
\* reaches hit resolution, hit resolution changes no target, killCount, ammo, weapon
\* action or game-over flag and emits nothing; a hit resolution takes at most 1 hp from at
\* most one target and leaves canFire false; and canFire turns true only in a frame in
\* which some weapon action completes.
C36_NoHitWhileNotReady ==
  /\ [](\A delta \in 1..MaxDelta, intersects \in Intersections(Len(targets)) :
          LET s == Aimed(delta)
              r == checkTargetHits(s, intersects)
          IN  /\ ~(s.canFire /\ s.magAmmo > 0) =>
                   /\ r.targets = s.targets /\ r.killCount = s.killCount
                   /\ r.magAmmo = s.magAmmo /\ r.emitted = s.emitted
                   /\ r.isGameOver = s.isGameOver /\ r.actionTime = s.actionTime
                   /\ r.currentWeaponActionName = s.currentWeaponActionName
                   /\ ~r.hitDetected
              /\ Cardinality(Damaged(s.targets, r.targets)) <= 1
              /\ \A i \in Damaged(s.targets, r.targets) :
                   r.targets[i].hp = s.targets[i].hp - 1 /\ ~r.canFire
              /\ (~canFire /\ s.canFire) => CompletesWithin(delta))
  /\ [][(~canFire /\ canFire') => frameSteps' # <<>>]_vars

\* C36 witness: a Playing frame has run hit resolution while Fire was part-way through
\* and the weapon not ready, with a damaged target still standing, and registered no hit.
C36_Witness ==
  /\ ~isGameOver /\ ~canFire /\ magAmmo > 0 /\ ~hitDetected
  /\ currentWeaponActionName = "fire" /\ actionTime["fire"] >= 1
  /\ "checkTargetHits" \in {frameSteps[k] : k \in DOMAIN frameSteps}
  /\ \E i \in DOMAIN targets :
       targets[i].visible /\ targets[i].hp >= 1 /\ targets[i].hp < config.hp

\* C37: for every target in every reachable state the elimination-animation progress is
\* between 0 and 1, that is between 0 and ANIMATION_DURATION ticks.
C37_ProgressWithinUnitInterval ==
  \A i \in DOMAIN targets :
    targets[i].animationProgress >= 0 /\ targets[i].animationProgress <= ANIMATION_DURATION

\* the number of pending completion callbacks of the Deploy action
DeployCallbacks(ls) == Cardinality({k \in DOMAIN ls : ls[k] = "deployComplete"})

\* the three resets of Game's play-again handler run once each, and the joysticks' handlers
OnceEach(st) ==
  [resetTargets(resetToInitialState(resetGame(st))) EXCEPT
     !.joystickIsGameOver = <<FALSE, FALSE>>]

\* the controllers' own play-again handlers run after that: both resets a second time
TwiceEach(st) == resetTargets(resetToInitialState(OnceEach(st)))

\* C38: the PLAY_AGAIN event has Game's handler and each controller's own handler as
\* listeners, so one emission runs resetToInitialState and resetTargets twice; a play-again
\* step leaves the state that running resetGame, resetToInitialState and resetTargets once
\* each leaves, and it registers exactly one Deploy completion callback.
C38_PlayAgainResetsTwiceAsOnce ==
  /\ [](/\ Cardinality({k \in DOMAIN listeners["PLAY_AGAIN"] :
                          listeners["PLAY_AGAIN"][k].cb
                            \in {"Game.onPlayAgain", "PlayerController.onPlayAgain"}}) = 2
        /\ Cardinality({k \in DOMAIN listeners["PLAY_AGAIN"] :
                          listeners["PLAY_AGAIN"][k].cb
                            \in {"Game.onPlayAgain", "TargetController.onPlayAgain"}}) = 2)
  /\ [][PlayAgainStep =>
          LET h == hideGameOverOverlay(St)
              r == emit(h, "PLAY_AGAIN", "none")
              o == OnceEach(h)
          IN  /\ r = [TwiceEach(h) EXCEPT !.emitted = r.emitted]
              /\ r = [o EXCEPT !.emitted = r.emitted]
              /\ r.emitted = <<"PLAY_AGAIN">> \o o.emitted
              /\ DeployCallbacks(r.mixerListeners) = DeployCallbacks(h.mixerListeners) + 1
              /\ targets' = r.targets /\ magAmmo' = r.magAmmo
              /\ killCount' = r.killCount /\ isGameOver' = r.isGameOver
              /\ rotationState' = r.rotationState /\ canFire' = r.canFire
              /\ obj3D' = r.obj3D /\ cameraRotationX' = r.cameraRotationX
              /\ currentWeaponActionName' = r.currentWeaponActionName
              /\ mixerListeners' = r.mixerListeners /\ actionTime' = r.actionTime
              /\ weaponTransitions' = r.weaponTransitions
              /\ joystickIsGameOver' = r.joystickIsGameOver]_vars

\* C38 witness: a play-again step has just been taken from a finished session; Deploy was
\* played once and one Deploy completion callback is pending.
C38_Witness ==
  /\ ~overlayVisible /\ ~isGameOver /\ killCount = 0
  /\ Len(weaponTransitions) = 1
  /\ weaponTransitions[1].to = "deploy"
  /\ weaponTransitions[1].from \in {"fire", "reload", "idle"}
  /\ currentWeaponActionName = "deploy"
  /\ DeployCallbacks(mixerListeners) = 1
  /\ \A i \in DOMAIN targets : targets[i].hp = config.hp /\ targets[i].visible

====
